---- MODULE Spec2Model ----
(***************************************************************************)
(* Revenue-share library: the standard allocator of PayoutCalculator       *)
(* (calculate, _processFixedPercentages, _processRemainder, the two buyer  *)
(* allocations), the scheme validator, the sale ledger of RevenueSharing   *)
(* and the buy-to-earn simulator (calculateBuyToEarnPayouts).              *)
(*                                                                         *)
(* Amounts are JavaScript numbers in the source.  They are modelled as     *)
(* exact rationals <<n, d>> with d > 0 in lowest terms, so that a sum that *)
(* is meant to be exact is compared exactly.                               *)
(***************************************************************************)
EXTENDS Integers, Sequences, FiniteSets

(***************************************************************************)
(* Bounds of the model.                                                    *)
(***************************************************************************)
MaxSales == 2
MaxRules == 2
MaxB2ESales == 5
MaxBatch == 3

(***************************************************************************)
(* Exact arithmetic on amounts.                                            *)
(***************************************************************************)
Abs(n) == IF n < 0 THEN -n ELSE n

RECURSIVE GCD(_, _)
GCD(a, b) == IF b = 0 THEN a ELSE GCD(b, a % b)

QNorm(n, d) ==
  LET g == GCD(Abs(n), d) IN <<n \div g, d \div g>>

Q(n) == <<n, 1>>

Zero == <<0, 1>>

QAdd(a, b) ==
  LET g == GCD(a[2], b[2])
  IN QNorm(a[1] * (b[2] \div g) + b[1] * (a[2] \div g), (a[2] \div g) * b[2])

QNeg(a) == <<-a[1], a[2]>>

QSub(a, b) == QAdd(a, QNeg(b))

QMul(a, b) ==
  LET g1 == GCD(Abs(a[1]), b[2])
      g2 == GCD(Abs(b[1]), a[2])
  IN QNorm((a[1] \div g1) * (b[1] \div g2), (a[2] \div g2) * (b[2] \div g1))

\* a / b for b > 0 (every divisor of the source is a positive count or 100)
QDiv(a, b) == QMul(a, <<b[2], b[1]>>)

QLt(a, b) == a[1] * b[2] < b[1] * a[2]

QLe(a, b) == a[1] * b[2] <= b[1] * a[2]

RECURSIVE QSum(_, _)
QSum(f, S) ==
  IF S = {} THEN Zero
  ELSE LET x == CHOOSE y \in S : TRUE IN QAdd(f[x], QSum(f, S \ {x}))

(***************************************************************************)
(* Inputs: buyers, timestamps, prices, rules.                              *)
(***************************************************************************)
Buyers == {"b1", "b2"}

\* a timestamp of 0 is falsy in the sort comparator, like a missing one
Timestamps == {0, 1, 2}

UnitPrices == {10}

NoBuyer == ""

Rule(k, hp, p, hr, r, c, fe) ==
  [key |-> k, hasPercentage |-> hp, percentage |-> p,
   hasRemainder |-> hr, remainder |-> r, count |-> c, fromEnd |-> fe]

\* rule shapes offered to the constructor, in a fixed key order
RuleMenu ==
  << Rule("author", TRUE, 50, FALSE, FALSE, 0, FALSE),
     Rule("author", TRUE, 30, TRUE, TRUE, 0, FALSE),
     Rule("platform", TRUE, 30, FALSE, FALSE, 0, FALSE),
     Rule("platform", FALSE, 0, TRUE, TRUE, 0, FALSE),
     Rule("promotion", TRUE, 30, FALSE, FALSE, 0, FALSE),
     Rule("allBuyers", TRUE, 50, FALSE, FALSE, 0, FALSE),
     Rule("allBuyers", FALSE, 0, TRUE, TRUE, 0, FALSE),
     Rule("buyersEarly", TRUE, 30, FALSE, FALSE, 2, FALSE),
     Rule("buyersEarly", FALSE, 0, TRUE, TRUE, 1, FALSE),
     Rule("earlyBuyers", TRUE, 50, FALSE, FALSE, 2, FALSE),
     Rule("earlyBuyers", FALSE, 0, TRUE, TRUE, 1, FALSE),
     Rule("lateBuyers", TRUE, 30, FALSE, FALSE, 1, TRUE),
     Rule("marketingPartner", TRUE, 30, FALSE, FALSE, 0, FALSE),
     Rule("marketingPartner", FALSE, 0, TRUE, TRUE, 0, FALSE) >>

\* a scheme is the sequence Object.entries(scheme): distinct keys
Schemes ==
  { s \in UNION { [1..n -> 1..Len(RuleMenu)] : n \in 1..MaxRules } :
      \A i, j \in DOMAIN s :
        i < j => /\ s[i] < s[j]
                 /\ RuleMenu[s[i]].key # RuleMenu[s[j]].key }

SchemeOf(s) == [i \in DOMAIN s |-> RuleMenu[s[i]]]

(***************************************************************************)
(* SchemeValidator.validate with its default options.                      *)
(***************************************************************************)
\* the errors _validateSchemeEntries pushes for one rule (as a count)
EntryErrors(rule) ==
  (IF rule.hasPercentage /\ (rule.percentage < 0 \/ rule.percentage > 100)
     THEN 1 ELSE 0)
  + (IF rule.count # 0 /\ rule.count <= 0 THEN 1 ELSE 0)
  + (IF rule.count # 0 /\ ~rule.hasPercentage /\ ~rule.hasRemainder
       THEN 1 ELSE 0)
  + (IF rule.hasPercentage /\ rule.hasRemainder THEN 1 ELSE 0)

RECURSIVE SeqSum(_)
SeqSum(s) == IF s = <<>> THEN 0 ELSE Head(s) + SeqSum(Tail(s))

\* _validateRemainderFlags: more than one rule with remainder === true
RemainderFlagErrors(sch) ==
  IF Cardinality({i \in DOMAIN sch : sch[i].remainder = TRUE}) > 1
    THEN 1 ELSE 0

validate(sch) ==
  IF Len(sch) = 0 THEN FALSE
  ELSE SeqSum([i \in DOMAIN sch |-> EntryErrors(sch[i])])
         + RemainderFlagErrors(sch) = 0

(***************************************************************************)
(* PayoutCalculator.calculate: the sort of the ledger.                     *)
(***************************************************************************)
Truthy(t) == t # 0

\* the comparator of [...sales].sort(...)
Compare(a, b) ==
  IF Truthy(a.timestamp) /\ Truthy(b.timestamp)
    THEN a.timestamp - b.timestamp ELSE 0

IndexPermutations(n) ==
  { p \in [1..n -> 1..n] : \A i, j \in 1..n : i # j => p[i] # p[j] }

\* the comparator is a consistent one (ECMAScript 23.1.3.30) iff "equal"
\* is transitive: a falsy timestamp is equal to every other sale
ConsistentComparator(s) ==
  \A i, j, k \in DOMAIN s :
    (Compare(s[i], s[j]) = 0 /\ Compare(s[j], s[k]) = 0)
      => Compare(s[i], s[k]) = 0

\* Array.prototype.sort is stable under a consistent comparator and
\* implementation-defined otherwise: every order is a possible outcome
SortOutcomes(s) ==
  LET n == Len(s)
      Stable(p) ==
        \A i, j \in 1..n :
          i < j => \/ Compare(s[p[i]], s[p[j]]) < 0
                   \/ (Compare(s[p[i]], s[p[j]]) = 0 /\ p[i] < p[j])
  IN { [i \in 1..n |-> s[p[i]]] :
         p \in { q \in IndexPermutations(n) :
                   ConsistentComparator(s) => Stable(q) } }

(***************************************************************************)
(* PayoutCalculator: payouts and the two buyer allocations.                *)
(***************************************************************************)
BuyersOf(s) == { s[i].buyer : i \in DOMAIN s }

\* payouts = { author: 0, platform: 0, buyers: {} } plus one 0 per buyer;
\* extras holds the fields the allocator adds to payouts on first use
InitialPayouts(sortedS) ==
  [author |-> Zero, platform |-> Zero,
   extras |-> [k \in {} |-> Zero],
   buyers |-> [b \in BuyersOf(sortedS) |-> Zero]]

\* if (!payouts.promotion) payouts.promotion = 0; payouts.promotion += share
AddExtra(extras, k, share) ==
  [x \in DOMAIN extras \cup {k} |->
     IF x = k THEN QAdd(IF k \in DOMAIN extras THEN extras[k] ELSE Zero, share)
     ELSE extras[x]]

NoPayouts == InitialPayouts(<<>>)

\* forEach(sale => payouts.buyers[sale.buyer] += individualShare)
RECURSIVE Credit(_, _, _)
Credit(buyers, group, individualShare) ==
  IF group = <<>> THEN buyers
  ELSE Credit([buyers EXCEPT ![Head(group).buyer] = QAdd(@, individualShare)],
              Tail(group), individualShare)

Min(a, b) == IF a < b THEN a ELSE b

\* sortedSales.slice(-count) or sortedSales.slice(0, count), count > 0
GroupOf(rule, sortedS) ==
  LET n == Len(sortedS)
  IN IF rule.fromEnd
       THEN SubSeq(sortedS, (IF rule.count >= n THEN 1 ELSE n - rule.count + 1), n)
       ELSE SubSeq(sortedS, 1, Min(rule.count, n))

\* variant: the share is divided by rule.count instead of groupSize
_processGroupAllocation_ByCount(rule, sortedS, pay, share) ==
  LET group == GroupOf(rule, sortedS)
      groupSize == Min(Len(group), rule.count)
  IN IF groupSize <= 0 THEN pay
     ELSE [pay EXCEPT !.buyers =
             Credit(@, group, QDiv(share, Q(rule.count)))]

_processGroupAllocation(rule, sortedS, pay, share) ==
  LET group == GroupOf(rule, sortedS)
      groupSize == Min(Len(group), rule.count)
  IN IF groupSize <= 0 THEN pay
     ELSE [pay EXCEPT !.buyers =
             Credit(@, group, QDiv(share, Q(groupSize)))]

_processAllBuyersAllocation(sortedS, pay, share) ==
  IF Len(sortedS) <= 0 THEN pay
  ELSE [pay EXCEPT !.buyers =
          Credit(@, sortedS, QDiv(share, Q(Len(sortedS))))]

\* key === 'allBuyers' || key.startsWith('buyers')
IsAllBuyersKey(key) == key \in {"allBuyers", "buyersEarly"}

\* the if-chain of _processFixedPercentages on share
RoutePercentage(rule, sortedS, pay, share) ==
  IF rule.key = "author"
    THEN [pay EXCEPT !.author = QAdd(@, share)]
  ELSE IF rule.key = "platform"
    THEN [pay EXCEPT !.platform = QAdd(@, share)]
  ELSE IF rule.key = "promotion"
    THEN [pay EXCEPT !.extras = AddExtra(@, "promotion", share)]
  ELSE IF rule.count # 0
    THEN _processGroupAllocation(rule, sortedS, pay, share)
  ELSE IF IsAllBuyersKey(rule.key)
    THEN _processAllBuyersAllocation(sortedS, pay, share)
  ELSE pay

\* (totalRevenue * rule.percentage) / 100
ShareOf(totalRev, percentage) == QDiv(Q(totalRev * percentage), Q(100))

\* one iteration of the loop of _processFixedPercentages
FixedPercentageStep(rule, sortedS, pay, totalRev) ==
  IF ~rule.hasPercentage THEN pay
  ELSE RoutePercentage(rule, sortedS, pay, ShareOf(totalRev, rule.percentage))

_calculateAllocatedPercentage(sch) ==
  SeqSum([i \in DOMAIN sch |->
            IF sch[i].hasPercentage THEN sch[i].percentage ELSE 0])

\* totalRevenue * (1 - totalAllocatedPercentage / 100)
RemainderOf(totalRev, allocated) ==
  QMul(Q(totalRev), QSub(Q(1), QDiv(Q(allocated), Q(100))))

\* Object.entries(scheme).filter(([_, rule]) => rule.remainder)
RECURSIVE RemainderRules(_)
RemainderRules(sch) ==
  IF sch = <<>> THEN <<>>
  ELSE (IF Head(sch).remainder THEN <<Head(sch)>> ELSE <<>>)
         \o RemainderRules(Tail(sch))

HasKey(sch, k) == \E i \in DOMAIN sch : sch[i].key = k

\* the if-chain of _processRemainder on sharePerRule
RouteRemainder(rule, sortedS, pay, share) ==
  IF rule.key = "author"
    THEN [pay EXCEPT !.author = QAdd(@, share)]
  ELSE IF rule.key = "platform"
    THEN [pay EXCEPT !.platform = QAdd(@, share)]
  ELSE IF rule.key = "promotion"
    THEN [pay EXCEPT !.extras = AddExtra(@, "promotion", share)]
  ELSE IF IsAllBuyersKey(rule.key)
    THEN _processAllBuyersAllocation(sortedS, pay, share)
  ELSE IF rule.count # 0
    THEN _processGroupAllocation(rule, sortedS, pay, share)
  ELSE pay

\* what a payouts object hands out in all
PayoutTotal(pay) ==
  QAdd(QAdd(pay.author, pay.platform),
       QAdd(QSum(pay.extras, DOMAIN pay.extras),
            QSum(pay.buyers, DOMAIN pay.buyers)))

(***************************************************************************)
(* State: one RevenueSharing instance and the call in progress.            *)
(***************************************************************************)
VARIABLES
  useBuyToEarnModel,  \* this.useBuyToEarnModel
  scheme,             \* this.scheme (standard model)
  params,             \* the buy-to-earn fields of the instance
  unitPrice,          \* this.unitPrice
  sales,              \* this.sales, the ledger
  pc,                 \* position of the call in progress, "idle" if none
  totalRevenue,       \* calculate: data.totalRevenue
  sortedSales,        \* calculate: sortedSales
  payouts,            \* calculate: payouts
  idx,                \* index of the loop in progress
  remainderRules,     \* _processRemainder: remainderRules
  sharePerRule,       \* _processRemainder: sharePerRule
  sim,                \* calculateBuyToEarnPayouts: locals of the simulation
  result,             \* calculateBuyToEarnPayouts: the returned object
  options,            \* this.options
  productName,        \* this.productName
  calls,              \* the last two completed calls of the public methods
  other               \* a second RevenueSharing instance, <<>> if none

vars ==
  <<useBuyToEarnModel, scheme, params, unitPrice, sales, pc, totalRevenue,
    sortedSales, payouts, idx, remainderRules, sharePerRule, sim, result,
    options, productName, calls, other>>

instanceVars == <<useBuyToEarnModel, scheme, params, unitPrice>>

allocVars ==
  <<totalRevenue, sortedSales, payouts, idx, remainderRules, sharePerRule>>

NoParams == [initialInvestment |-> 0]

NoSim == [currentSale |-> 0]

NoResult == [prepayersCount |-> 0]

b2eVars == <<sim, result>>

apiVars == <<options, productName, calls, other>>

\* this.options = { validateScheme: true, trackSaleTimestamp: true, ...options }
OptionsOf(validateScheme) ==
  [validateScheme |-> validateScheme, trackSaleTimestamp |-> TRUE]

\* an instance whose calls are not recorded, with no second instance
ApiIdle ==
  /\ options = OptionsOf(FALSE)
  /\ productName = "Product1"
  /\ calls = <<>>
  /\ other = <<>>

AllocIdle ==
  /\ totalRevenue = 0
  /\ sortedSales = <<>>
  /\ payouts = NoPayouts
  /\ idx = 0
  /\ remainderRules = <<>>
  /\ sharePerRule = Zero

\* new RevenueSharing({ productName, unitPrice, scheme }), standard model
InitStandard ==
  /\ useBuyToEarnModel = FALSE
  /\ scheme \in { SchemeOf(s) : s \in Schemes }
  /\ params = NoParams
  /\ unitPrice \in UnitPrices
  /\ sales = <<>>
  /\ pc = "idle"
  /\ AllocIdle
  /\ ApiIdle
  /\ sim = NoSim
  /\ result = NoResult

(***************************************************************************)
(* RevenueSharing.addSale                                                  *)
(***************************************************************************)
\* the sales a buy-to-earn ledger is built from
BuyToEarnSales == { <<"b1", 1>>, <<"b2", 0>> }

\* the sales offered to addSale
SaleInputs ==
  IF useBuyToEarnModel THEN BuyToEarnSales ELSE Buyers \X Timestamps

addSale(buyer, timestamp) ==
  /\ pc = "idle"
  /\ Len(sales) < (IF useBuyToEarnModel THEN MaxB2ESales ELSE MaxSales)
  /\ buyer # NoBuyer
  /\ <<buyer, timestamp>> \in SaleInputs
  /\ sales' = Append(sales, [buyer |-> buyer, timestamp |-> timestamp])
  /\ UNCHANGED <<instanceVars, apiVars, pc, allocVars, b2eVars>>

(***************************************************************************)
(* RevenueSharing._calculateStandardPayouts -> PayoutCalculator.calculate  *)
(***************************************************************************)
\* calculate, up to the first iteration of _processFixedPercentages
calculate ==
  /\ pc = "idle"
  /\ ~useBuyToEarnModel
  /\ totalRevenue' = Len(sales) * unitPrice
  /\ sortedSales' \in SortOutcomes(sales)
  /\ payouts' = InitialPayouts(sortedSales')
  /\ idx' = 1
  /\ pc' = "fixed"
  /\ UNCHANGED <<instanceVars, apiVars, sales, remainderRules, sharePerRule,
               b2eVars>>

\* one iteration of the loop of _processFixedPercentages
_processFixedPercentages ==
  /\ pc = "fixed"
  /\ idx <= Len(scheme)
  /\ payouts' = FixedPercentageStep(scheme[idx], sortedSales, payouts,
                                    totalRevenue)
  /\ idx' = idx + 1
  /\ UNCHANGED <<instanceVars, apiVars, sales, pc, totalRevenue, sortedSales,
                 remainderRules, sharePerRule, b2eVars>>

\* variant: no default to the author (the loop of the 1.0.0 calculator)
_processRemainder_NoDefault ==
  /\ pc = "fixed"
  /\ idx > Len(scheme)
  /\ LET remainder ==
           RemainderOf(totalRevenue, _calculateAllocatedPercentage(scheme))
         rules == RemainderRules(scheme)
     IN IF QLe(remainder, Zero)
          THEN /\ pc' = "done"
               /\ UNCHANGED <<payouts, remainderRules, sharePerRule>>
        ELSE /\ remainderRules' = rules
             /\ sharePerRule' = IF Len(rules) = 0 THEN Zero
                                ELSE QDiv(remainder, Q(Len(rules)))
             /\ pc' = "remainder"
             /\ UNCHANGED payouts
  /\ idx' = 1
  /\ UNCHANGED <<instanceVars, apiVars, sales, totalRevenue, sortedSales,
               b2eVars>>

\* _processRemainder up to its loop: the early return, the default to the
\* author, the split of the remainder
_processRemainder ==
  /\ pc = "fixed"
  /\ idx > Len(scheme)
  /\ LET remainder ==
           RemainderOf(totalRevenue, _calculateAllocatedPercentage(scheme))
         rules == RemainderRules(scheme)
     IN IF QLe(remainder, Zero)
          THEN /\ pc' = "done"
               /\ UNCHANGED <<payouts, remainderRules, sharePerRule>>
        ELSE IF Len(rules) = 0 /\ HasKey(scheme, "author")
          THEN /\ payouts' = [payouts EXCEPT !.author = QAdd(@, remainder)]
               /\ pc' = "done"
               /\ UNCHANGED <<remainderRules, sharePerRule>>
        ELSE /\ remainderRules' = rules
             \* remainder / 0 is Infinity and is never used: the loop is empty
             /\ sharePerRule' = IF Len(rules) = 0 THEN Zero
                                ELSE QDiv(remainder, Q(Len(rules)))
             /\ pc' = "remainder"
             /\ UNCHANGED payouts
  /\ idx' = 1
  /\ UNCHANGED <<instanceVars, apiVars, sales, totalRevenue, sortedSales,
               b2eVars>>

\* one iteration of the loop of _processRemainder
_processRemainderRule ==
  /\ pc = "remainder"
  /\ idx <= Len(remainderRules)
  /\ payouts' = RouteRemainder(remainderRules[idx], sortedSales, payouts,
                              sharePerRule)
  /\ idx' = idx + 1
  /\ UNCHANGED <<instanceVars, apiVars, sales, pc, totalRevenue, sortedSales,
                 remainderRules, sharePerRule, b2eVars>>

\* the loop of _processRemainder ends; calculate returns payouts
calculateReturn ==
  /\ pc = "remainder"
  /\ idx > Len(remainderRules)
  /\ pc' = "done"
  /\ UNCHANGED <<instanceVars, apiVars, sales, allocVars, b2eVars>>

\* the caller has the result; the locals of the call are gone
release ==
  /\ pc = "done"
  /\ pc' = "idle"
  /\ totalRevenue' = 0
  /\ sortedSales' = <<>>
  /\ payouts' = NoPayouts
  /\ idx' = 0
  /\ remainderRules' = <<>>
  /\ sharePerRule' = Zero
  /\ sim' = NoSim
  /\ result' = NoResult
  /\ UNCHANGED <<instanceVars, apiVars, sales>>

(***************************************************************************)
(* Buy-to-earn: PayoutCalculator.calculateBuyToEarnPayouts                 *)
(***************************************************************************)
InitialInvestments == {10, 15, 20}

\* <<creatorShare, platformShare, promotionShare>>
ShareTriples == { <<0, 0, 0>>, <<10, 10, 10>>, <<50, 30, 20>> }

PaybackRatios == {1, 2}

NonPaybackPoolShares == {0, 60, 100}

Null == <<>>

\* new RevenueSharing({ useBuyToEarnModel: true, initialInvestment, ... })
InitBuyToEarn ==
  /\ useBuyToEarnModel = TRUE
  /\ scheme = <<>>
  /\ \E inv \in InitialInvestments, sh \in ShareTriples,
        ratio \in PaybackRatios, np \in NonPaybackPoolShares :
       params = [initialInvestment |-> inv,
                 creatorShare |-> sh[1],
                 platformShare |-> sh[2],
                 promotionShare |-> sh[3],
                 paybackRatio |-> ratio,
                 nonPaybackPoolSharePercent |-> np]
  /\ unitPrice \in UnitPrices
  /\ sales = <<>>
  /\ pc = "idle"
  /\ AllocIdle
  /\ ApiIdle
  /\ sim = NoSim
  /\ result = NoResult

\* variant: Math.floor instead of Math.ceil
Ceil_Floor(a, b) == a \div b

\* Math.ceil(a / b) for a >= 0, b > 0
Ceil(a, b) == (a + b - 1) \div b

numPrepayersOf(p, price) == Ceil(p.initialInvestment, price)

paybackGoalOf(p, price) == Q(price * p.paybackRatio)

buyersShareOf(p) ==
  100 - p.creatorShare - p.platformShare - p.promotionShare

\* unitPrice * (share / 100)
AmountOf(price, share) == QMul(Q(price), QDiv(Q(share), Q(100)))

\* the object returned when totalSales < numPrepayers
ShortCircuitResult(p, price) ==
  [creator |-> Q(p.initialInvestment),
   platform |-> Zero,
   promotion |-> Zero,
   buyer |-> Zero,
   prepayersCount |-> numPrepayersOf(p, price),
   paidBackCount |-> 0,
   paybackPoint |-> Null,
   totalRevenueAtPayback |-> Zero,
   creatorRevenueAtPayback |-> Zero,
   platformRevenueAtPayback |-> Zero,
   paybackGoal |-> paybackGoalOf(p, price),
   actualInitialInvestment |-> Q(p.initialInvestment)]

\* variant: the loop starts at the last prepayer
InitialSim_FromPrepayer(p, price, totalSales, specificTokenNumber) ==
  [specificTokenNumber |-> specificTokenNumber,
   currentSale |-> numPrepayersOf(p, price),
   creatorRevenue |-> Q(p.initialInvestment),
   platformRevenue |-> Zero,
   promotionRevenue |-> Zero,
   totalRevenue |-> Q(p.initialInvestment),
   tokenEarnings |-> [i \in 1..totalSales |-> Zero],
   paidBackCount |-> 0,
   paybackPoint |-> Null,
   totalRevenueAtPayback |-> Zero,
   creatorRevenueAtPayback |-> Zero,
   platformRevenueAtPayback |-> Zero]

\* the locals before the first iteration of the simulation loop
InitialSim(p, price, totalSales, specificTokenNumber) ==
  [specificTokenNumber |-> specificTokenNumber,
   currentSale |-> numPrepayersOf(p, price) + 1,
   creatorRevenue |-> Q(p.initialInvestment),
   platformRevenue |-> Zero,
   promotionRevenue |-> Zero,
   totalRevenue |-> Q(p.initialInvestment),
   tokenEarnings |-> [i \in 1..totalSales |-> Zero],
   paidBackCount |-> 0,
   paybackPoint |-> Null,
   totalRevenueAtPayback |-> Zero,
   creatorRevenueAtPayback |-> Zero,
   platformRevenueAtPayback |-> Zero]

\* variant: a token exactly at the goal still counts as not paid back
notPaidBackCountOf_AtGoal(earnings, n, goal) ==
  Cardinality({ i \in 1..n : QLe(earnings[i], goal) })

notPaidBackCountOf(earnings, n, goal) ==
  Cardinality({ i \in 1..n : QLt(earnings[i], goal) })

\* variant: the non-payback pool is divided by all tokens of the distribution
nonPaybackSharePerTokenOf_ByTokens(p, price, earnings, n) ==
  LET notPaidBackCount == notPaidBackCountOf(earnings, n, paybackGoalOf(p, price))
      nonPaybackPoolAmount ==
        QMul(AmountOf(price, buyersShareOf(p)),
             QDiv(Q(p.nonPaybackPoolSharePercent), Q(100)))
  IN IF notPaidBackCount > 0
       THEN QDiv(nonPaybackPoolAmount, Q(n))
       ELSE Zero

nonPaybackSharePerTokenOf(p, price, earnings, n) ==
  LET notPaidBackCount == notPaidBackCountOf(earnings, n, paybackGoalOf(p, price))
      nonPaybackPoolAmount ==
        QMul(AmountOf(price, buyersShareOf(p)),
             QDiv(Q(p.nonPaybackPoolSharePercent), Q(100)))
  IN IF notPaidBackCount > 0
       THEN QDiv(nonPaybackPoolAmount, Q(notPaidBackCount))
       ELSE Zero

\* variant: paybackPoolSharePercent with the wrong sign
sharedSharePerTokenOf_Sign(p, price, n) ==
  LET sharedPoolAmount ==
        QMul(AmountOf(price, buyersShareOf(p)),
             QDiv(Q(p.nonPaybackPoolSharePercent - 100), Q(100)))
  IN QDiv(sharedPoolAmount, Q(n))

sharedSharePerTokenOf(p, price, n) ==
  LET sharedPoolAmount ==
        QMul(AmountOf(price, buyersShareOf(p)),
             QDiv(Q(100 - p.nonPaybackPoolSharePercent), Q(100)))
  IN QDiv(sharedPoolAmount, Q(n))

\* what token i earns in a round over the tokens 1..n
EarningOf(p, price, earnings, n, i) ==
  LET wasPaidBackBefore == QLe(paybackGoalOf(p, price), earnings[i])
  IN IF wasPaidBackBefore
       THEN sharedSharePerTokenOf(p, price, n)
       ELSE QAdd(sharedSharePerTokenOf(p, price, n),
                 nonPaybackSharePerTokenOf(p, price, earnings, n))

\* variant: the distribution loop starts at the second token
Distribute_FromSecond(p, price, earnings, n) ==
  [i \in DOMAIN earnings |->
     IF 1 < i /\ i <= n
       THEN QAdd(earnings[i], EarningOf(p, price, earnings, n, i))
     ELSE earnings[i]]

\* tokenEarnings after the distribution of one sale
Distribute(p, price, earnings, n) ==
  [i \in DOMAIN earnings |->
     IF i <= n THEN QAdd(earnings[i], EarningOf(p, price, earnings, n, i))
     ELSE earnings[i]]

\* variant: the snapshot is taken again in every round at the goal
RecordsPayback_Again(s, n, goal, earnings) ==
  /\ n > 0
  /\ s.specificTokenNumber \in 1..n
  /\ QLe(goal, earnings[s.specificTokenNumber])

\* tokenEarnings[i] >= paybackGoal && i === specificTokenNumber &&
\* paybackPoint === null, for an i of the distribution loop
RecordsPayback(s, n, goal, earnings) ==
  /\ n > 0
  /\ s.specificTokenNumber \in 1..n
  /\ QLe(goal, earnings[s.specificTokenNumber])
  /\ s.paybackPoint = Null

\* variant: paidBackCount is not reset to 0 before the distribution loop
SimulateSale_NoReset(p, price, s) ==
  LET goal == paybackGoalOf(p, price)
      total == QAdd(s.totalRevenue, Q(price))
      creator == QAdd(s.creatorRevenue, AmountOf(price, p.creatorShare))
      platform == QAdd(s.platformRevenue, AmountOf(price, p.platformShare))
      promotion == QAdd(s.promotionRevenue, AmountOf(price, p.promotionShare))
      numTokensInDistribution == s.currentSale - 1
      earnings == IF numTokensInDistribution > 0
                    THEN Distribute(p, price, s.tokenEarnings,
                                    numTokensInDistribution)
                    ELSE s.tokenEarnings
      records == RecordsPayback(s, numTokensInDistribution, goal, earnings)
  IN [s EXCEPT
        !.currentSale = @ + 1,
        !.totalRevenue = total,
        !.creatorRevenue = creator,
        !.platformRevenue = platform,
        !.promotionRevenue = promotion,
        !.tokenEarnings = earnings,
        !.paidBackCount =
           IF numTokensInDistribution > 0
             THEN @ + Cardinality({ i \in 1..numTokensInDistribution :
                                      QLe(goal, earnings[i]) })
             ELSE @,
        !.paybackPoint = IF records THEN <<s.currentSale>> ELSE @,
        !.totalRevenueAtPayback = IF records THEN total ELSE @,
        !.creatorRevenueAtPayback = IF records THEN creator ELSE @,
        !.platformRevenueAtPayback = IF records THEN platform ELSE @]

\* one iteration of the simulation loop
SimulateSale(p, price, s) ==
  LET goal == paybackGoalOf(p, price)
      total == QAdd(s.totalRevenue, Q(price))
      creator == QAdd(s.creatorRevenue, AmountOf(price, p.creatorShare))
      platform == QAdd(s.platformRevenue, AmountOf(price, p.platformShare))
      promotion == QAdd(s.promotionRevenue, AmountOf(price, p.promotionShare))
      numTokensInDistribution == s.currentSale - 1
      earnings == IF numTokensInDistribution > 0
                    THEN Distribute(p, price, s.tokenEarnings,
                                    numTokensInDistribution)
                    ELSE s.tokenEarnings
      records == RecordsPayback(s, numTokensInDistribution, goal, earnings)
  IN [s EXCEPT
        !.currentSale = @ + 1,
        !.totalRevenue = total,
        !.creatorRevenue = creator,
        !.platformRevenue = platform,
        !.promotionRevenue = promotion,
        !.tokenEarnings = earnings,
        !.paidBackCount =
           IF numTokensInDistribution > 0
             THEN Cardinality({ i \in 1..numTokensInDistribution :
                                  QLe(goal, earnings[i]) })
             ELSE @,
        !.paybackPoint = IF records THEN <<s.currentSale>> ELSE @,
        !.totalRevenueAtPayback = IF records THEN total ELSE @,
        !.creatorRevenueAtPayback = IF records THEN creator ELSE @,
        !.platformRevenueAtPayback = IF records THEN platform ELSE @]

\* the object returned after the loop
SimulationResult(p, price, s, totalSales) ==
  [creator |-> s.creatorRevenue,
   platform |-> s.platformRevenue,
   promotion |-> s.promotionRevenue,
   buyer |-> IF s.specificTokenNumber <= totalSales
               THEN s.tokenEarnings[s.specificTokenNumber] ELSE Zero,
   prepayersCount |-> numPrepayersOf(p, price),
   paidBackCount |-> s.paidBackCount,
   paybackPoint |-> s.paybackPoint,
   totalRevenueAtPayback |-> s.totalRevenueAtPayback,
   creatorRevenueAtPayback |-> s.creatorRevenueAtPayback,
   platformRevenueAtPayback |-> s.platformRevenueAtPayback,
   paybackGoal |-> paybackGoalOf(p, price),
   actualInitialInvestment |-> Q(p.initialInvestment)]

\* calculateBuyToEarnPayouts up to the simulation loop
calculateBuyToEarnPayouts(specificTokenNumber) ==
  /\ pc = "idle"
  /\ useBuyToEarnModel
  /\ IF Len(sales) < numPrepayersOf(params, unitPrice)
       THEN /\ result' = ShortCircuitResult(params, unitPrice)
            /\ sim' = [NoSim EXCEPT !.currentSale = 0]
            /\ pc' = "done"
       ELSE /\ sim' = InitialSim(params, unitPrice, Len(sales),
                                 specificTokenNumber)
            /\ result' = NoResult
            /\ pc' = "simulate"
  /\ UNCHANGED <<instanceVars, apiVars, sales, allocVars>>

\* one iteration of the simulation loop
simulateSale ==
  /\ pc = "simulate"
  /\ sim.currentSale <= Len(sales)
  /\ sim' = SimulateSale(params, unitPrice, sim)
  /\ UNCHANGED <<instanceVars, apiVars, sales, pc, allocVars, result>>

\* the loop ends; calculateBuyToEarnPayouts returns
simulationReturn ==
  /\ pc = "simulate"
  /\ sim.currentSale > Len(sales)
  /\ result' = SimulationResult(params, unitPrice, sim, Len(sales))
  /\ pc' = "done"
  /\ UNCHANGED <<instanceVars, apiVars, sales, allocVars, sim>>

Init == InitStandard \/ InitBuyToEarn

Next ==
  \/ \E buyer \in Buyers, timestamp \in Timestamps : addSale(buyer, timestamp)
  \/ calculate
  \/ _processFixedPercentages
  \/ _processRemainder
  \/ _processRemainderRule
  \/ calculateReturn
  \/ \E tok \in 1..(MaxB2ESales + 1) : calculateBuyToEarnPayouts(tok)
  \/ simulateSale
  \/ simulationReturn
  \/ release

Spec == Init /\ [][Next]_vars

(***************************************************************************)
(* Construction and SchemeValidator.validate on schemes as the caller      *)
(* writes them: a rule may be a string, null or an array.                  *)
(***************************************************************************)
\* a rule that is not an object; kind is "string", "null" or "array"
NonObjectRule(k, kind) == [key |-> k, nonObject |-> kind]

IsObjectRule(rule) == "nonObject" \notin DOMAIN rule

\* rule values offered to the constructor, in a fixed key order
ConstructorRules ==
  << Rule("author", TRUE, 60, FALSE, FALSE, 0, FALSE),
     Rule("author", TRUE, 30, TRUE, TRUE, 0, FALSE),
     Rule("platform", TRUE, 50, FALSE, FALSE, 0, FALSE),
     NonObjectRule("platform", "string"),
     NonObjectRule("platform", "null"),
     NonObjectRule("platform", "array"),
     Rule("allBuyers", FALSE, 0, TRUE, TRUE, 0, FALSE),
     Rule("allBuyers", TRUE, 150, FALSE, FALSE, 0, FALSE),
     Rule("earlyBuyers", TRUE, 50, FALSE, FALSE, 2, FALSE),
     Rule("earlyBuyers", FALSE, 0, FALSE, FALSE, 2, FALSE),
     Rule("promotion", FALSE, 0, TRUE, TRUE, 0, FALSE) >>

\* the scheme objects handed to the constructor, {} included
ConstructorSchemes ==
  { [i \in DOMAIN s |-> ConstructorRules[s[i]]] :
      s \in { t \in UNION { [1..n -> 1..Len(ConstructorRules)] :
                              n \in 0..MaxRules } :
                \A i, j \in DOMAIN t :
                  i < j => /\ t[i] < t[j]
                           /\ ConstructorRules[t[i]].key
                                # ConstructorRules[t[j]].key } }

\* !rule || typeof rule !== 'object' || Array.isArray(rule)
NonObjectMessage == "must be a non-null object"

\* the errors _validateSchemeEntries pushes for one rule, as <<text, key>>
EntryMessages(rule) ==
  IF ~IsObjectRule(rule) THEN { <<NonObjectMessage, rule.key>> }
  ELSE
    (IF rule.hasPercentage /\ (rule.percentage < 0 \/ rule.percentage > 100)
       THEN { <<"Percentage must be a number between 0 and 100", rule.key>> }
       ELSE {})
    \cup (IF rule.count # 0 /\ rule.count <= 0
            THEN { <<"Count must be a positive integer", rule.key>> }
            ELSE {})
    \cup (IF rule.count # 0 /\ ~rule.hasPercentage /\ ~rule.hasRemainder
            THEN { <<"with count must specify percentage or remainder",
                     rule.key>> }
            ELSE {})
    \cup (IF rule.hasPercentage /\ rule.hasRemainder
            THEN { <<"cannot have both percentage and remainder", rule.key>> }
            ELSE {})

\* rule.remainder === true; reading a property of null throws a TypeError
ReadsRemainderOfNull(rule) == ~IsObjectRule(rule) /\ rule.nonObject = "null"

\* 'percentage' in rule; the operator in throws a TypeError on a primitive
AppliesInToPrimitive(rule) ==
  ~IsObjectRule(rule) /\ rule.nonObject \in {"string", "null"}

\* _validateRemainderFlags on a scheme none of whose rules is null
RemainderFlagMessages(sch) ==
  LET flagged == { i \in DOMAIN sch :
                     IsObjectRule(sch[i]) /\ sch[i].remainder = TRUE }
  IN IF Cardinality(flagged) > 1
       THEN { <<"Only one rule can have remainder flag", "">> }
       ELSE {}

TypeError == [threw |-> TRUE, error |-> "TypeError"]

\* validate(scheme): the object it returns, or the exception it throws
validateResult(sch) ==
  IF Len(sch) = 0
    THEN [threw |-> FALSE, isValid |-> FALSE,
          errors |-> { <<"Scheme cannot be empty", "">> }]
  ELSE IF \E i \in DOMAIN sch : ReadsRemainderOfNull(sch[i])
    THEN TypeError
  ELSE IF \E i \in DOMAIN sch : AppliesInToPrimitive(sch[i])
    THEN TypeError
  ELSE LET errors == UNION { EntryMessages(sch[i]) : i \in DOMAIN sch }
                       \cup RemainderFlagMessages(sch)
       IN [threw |-> FALSE, isValid |-> errors = {}, errors |-> errors]

\* new RevenueSharing({ productName, unitPrice, scheme, options }) is about
\* to run
InitConstruct ==
  /\ useBuyToEarnModel = FALSE
  /\ scheme \in ConstructorSchemes
  /\ params = NoParams
  /\ unitPrice \in UnitPrices
  /\ sales = <<>>
  /\ pc = "new"
  /\ AllocIdle
  /\ sim = NoSim
  /\ result = NoResult
  /\ options \in { OptionsOf(v) : v \in BOOLEAN }
  /\ productName = "Product1"
  /\ calls = <<>>
  /\ other = <<>>

\* the constructor, standard model: validates when options.validateScheme
constructor ==
  /\ pc = "new"
  /\ ~useBuyToEarnModel
  /\ LET validationResult == validateResult(scheme)
     IN IF ~options.validateScheme
          THEN /\ pc' = "idle"
               /\ calls' = <<[op |-> "constructor", threw |-> FALSE]>>
        ELSE IF validationResult.threw
          THEN /\ pc' = "thrown"
               /\ calls' = <<[op |-> "constructor", threw |-> TRUE,
                              error |-> validationResult.error]>>
        ELSE IF ~validationResult.isValid
          THEN /\ pc' = "thrown"
               /\ calls' = <<[op |-> "constructor", threw |-> TRUE,
                              error |-> "Invalid scheme"]>>
        ELSE /\ pc' = "idle"
             /\ calls' = <<[op |-> "constructor", threw |-> FALSE]>>
  /\ UNCHANGED <<instanceVars, sales, allocVars, b2eVars, options,
                 productName, other>>

\* RevenueSharing.validateScheme, standard model
validateScheme ==
  /\ pc = "idle"
  /\ ~useBuyToEarnModel
  /\ Len(calls) = 1
  /\ calls' = Append(calls, [op |-> "validateScheme",
                             result |-> validateResult(scheme)])
  /\ UNCHANGED <<instanceVars, sales, pc, allocVars, b2eVars, options,
                 productName, other>>

NextConstruct == constructor \/ validateScheme

SpecConstruct == InitConstruct /\ [][NextConstruct]_vars

(***************************************************************************)
(* RevenueSharing._roundResults on the payouts objects of calculate.       *)
(***************************************************************************)
\* Math.round(value * 100) / 100; Math.round(x) is floor(x + 1/2)
roundToCents(value) ==
  QNorm((200 * value[1] + value[2]) \div (2 * value[2]), 100)

\* { ...payouts } with author, platform and every buyer rounded
_roundResults(pay) ==
  [pay EXCEPT !.author = roundToCents(@),
              !.platform = roundToCents(@),
              !.buyers = [b \in DOMAIN @ |-> roundToCents(@[b])]]

\* amounts of a raw result: 0, 10/3 and 1.234
RawAmounts == { Zero, <<10, 3>>, <<617, 500>> }

\* the payouts objects calculate can return for the buyers of the model
RawPayouts ==
  { [author |-> a, platform |-> p, extras |-> e, buyers |-> b] :
      a \in RawAmounts, p \in RawAmounts,
      e \in UNION { [K -> RawAmounts] : K \in SUBSET {"promotion"} },
      b \in UNION { [B -> RawAmounts] : B \in SUBSET Buyers } }

\* calculate has returned rawPayouts to _calculateStandardPayouts
InitRound ==
  /\ useBuyToEarnModel = FALSE
  /\ scheme = <<Rule("author", TRUE, 50, FALSE, FALSE, 0, FALSE)>>
  /\ params = NoParams
  /\ unitPrice \in UnitPrices
  /\ sales = <<>>
  /\ pc = "done"
  /\ totalRevenue = 0
  /\ sortedSales = <<>>
  /\ payouts \in RawPayouts
  /\ idx = 0
  /\ remainderRules = <<>>
  /\ sharePerRule = Zero
  /\ sim = NoSim
  /\ result = NoResult
  /\ ApiIdle

\* if (options.roundResults) return this._roundResults(rawPayouts)
returnRounded ==
  /\ pc = "done"
  /\ calls = <<>>
  /\ calls' = <<[op |-> "_roundResults", result |-> _roundResults(payouts)]>>
  /\ pc' = "idle"
  /\ UNCHANGED <<instanceVars, sales, allocVars, b2eVars, options,
                 productName, other>>

NextRound == returnRounded

SpecRound == InitRound /\ [][NextRound]_vars

(***************************************************************************)
(* RevenueSharing.calculatePayouts and addSale as whole calls.             *)
(***************************************************************************)
\* the loop of _processFixedPercentages from rule i on
RECURSIVE FixedPercentagesFrom(_, _, _, _, _)
FixedPercentagesFrom(sch, i, sortedS, pay, totalRev) ==
  IF i > Len(sch) THEN pay
  ELSE FixedPercentagesFrom(sch, i + 1, sortedS,
         FixedPercentageStep(sch[i], sortedS, pay, totalRev), totalRev)

\* the loop of _processRemainder from remainder rule i on
RECURSIVE RemainderRulesFrom(_, _, _, _, _)
RemainderRulesFrom(rules, i, sortedS, pay, share) ==
  IF i > Len(rules) THEN pay
  ELSE RemainderRulesFrom(rules, i + 1, sortedS,
         RouteRemainder(rules[i], sortedS, pay, share), share)

\* _processRemainder as a whole
RemainderPass(sch, sortedS, pay, totalRev) ==
  LET remainder == RemainderOf(totalRev, _calculateAllocatedPercentage(sch))
      rules == RemainderRules(sch)
  IN IF QLe(remainder, Zero) THEN pay
     ELSE IF Len(rules) = 0 /\ HasKey(sch, "author")
       THEN [pay EXCEPT !.author = QAdd(@, remainder)]
     ELSE IF Len(rules) = 0 THEN pay
     ELSE RemainderRulesFrom(rules, 1, sortedS, pay,
                             QDiv(remainder, Q(Len(rules))))

\* PayoutCalculator.calculate as a whole, given the order the sort returns
CalculateOf(sch, sortedS, totalRev) ==
  RemainderPass(sch, sortedS,
                FixedPercentagesFrom(sch, 1, sortedS,
                                     InitialPayouts(sortedS), totalRev),
                totalRev)

\* the simulation loop from the state s on
RECURSIVE SimulateFrom(_, _, _, _)
SimulateFrom(p, price, s, totalSales) ==
  IF s.currentSale > totalSales THEN s
  ELSE SimulateFrom(p, price, SimulateSale(p, price, s), totalSales)

\* variant: only the sales with a timestamp are counted
totalSalesOf_Stamped(ledger) ==
  Cardinality({ i \in DOMAIN ledger : Truthy(ledger[i].timestamp) })

\* const totalSales = sales.length
totalSalesOf(ledger) == Len(ledger)

\* PayoutCalculator.calculateBuyToEarnPayouts as a whole, on a ledger;
\* specificTokenNumber 0 stands for an absent one, which defaults to 1
calculateBuyToEarnPayoutsOf(p, price, ledger, specificTokenNumber) ==
  LET totalSales == totalSalesOf(ledger)
      tracked == IF specificTokenNumber = 0 THEN 1 ELSE specificTokenNumber
  IN IF totalSales < numPrepayersOf(p, price)
       THEN ShortCircuitResult(p, price)
     ELSE SimulationResult(p, price,
            SimulateFrom(p, price,
                         InitialSim(p, price, totalSales, tracked),
                         totalSales),
            totalSales)

\* variant: Math.floor instead of Math.ceil
calculateNumPrepayers_Floor(p, price) ==
  IF price <= 0 \/ p.initialInvestment <= 0 THEN 0
  ELSE p.initialInvestment \div price

\* RevenueSharing.calculateNumPrepayers on a buy-to-earn instance
calculateNumPrepayers(p, price) ==
  IF price <= 0 \/ p.initialInvestment <= 0 THEN 0
  ELSE Ceil(p.initialInvestment, price)

\* the result object of _calculateBuyToEarnPayouts before rounding; its
\* numPrepayers is this.calculateNumPrepayers()
BuyToEarnResultOf(p, price, totalSales, yourTokenNumber) ==
  LET numPrepayers == calculateNumPrepayers(p, price)
  IN IF totalSales < numPrepayers
       THEN [ShortCircuitResult(p, price) EXCEPT
               !.prepayersCount = numPrepayers]
     ELSE [SimulationResult(p, price,
             SimulateFrom(p, price,
                          [InitialSim(p, price, totalSales, yourTokenNumber)
                             EXCEPT !.currentSale = numPrepayers + 1],
                          totalSales),
             totalSales)
           EXCEPT !.prepayersCount = numPrepayers]

\* the seven roundToCents assignments of _calculateBuyToEarnPayouts
RoundBuyToEarn(r) ==
  [r EXCEPT !.creator = roundToCents(@),
            !.platform = roundToCents(@),
            !.promotion = roundToCents(@),
            !.buyer = roundToCents(@),
            !.totalRevenueAtPayback = roundToCents(@),
            !.creatorRevenueAtPayback = roundToCents(@),
            !.platformRevenueAtPayback = roundToCents(@)]

\* calculatePayouts() without an argument
NoArgument ==
  [given |-> FALSE, hasRoundResults |-> FALSE, roundResults |-> FALSE,
   specificTokenNumber |-> 0]

\* an options object; specificTokenNumber 0 stands for an absent one
OptionsArgument(hasRoundResults, roundResults, specificTokenNumber) ==
  [given |-> TRUE, hasRoundResults |-> hasRoundResults,
   roundResults |-> roundResults,
   specificTokenNumber |-> specificTokenNumber]

\* the arguments calculatePayouts is called with
CallOptions ==
  { NoArgument,
    OptionsArgument(TRUE, TRUE, 0),
    OptionsArgument(TRUE, FALSE, 0),
    OptionsArgument(TRUE, TRUE, 2),
    OptionsArgument(FALSE, FALSE, 2) }

\* options = { roundResults: true, specificTokenNumber: null } is the
\* default of the parameter: it applies when the argument is omitted
RoundRequested(o) ==
  IF o.given THEN o.hasRoundResults /\ o.roundResults ELSE TRUE

\* variant: the default of the tracked token moves on after a calculation
yourTokenNumberOf_Counter(o) ==
  IF o.given /\ o.specificTokenNumber # 0 THEN o.specificTokenNumber
  ELSE IF calls # <<>> /\ calls[Len(calls)].op = "calculatePayouts" THEN 2
  ELSE 1

\* options.specificTokenNumber || 1
yourTokenNumberOf(o) ==
  IF o.given /\ o.specificTokenNumber # 0 THEN o.specificTokenNumber ELSE 1

\* the fields of an instance calculatePayouts and exportData read
InstanceOf(model, sch, p, price, ledger, name, opts) ==
  [useBuyToEarnModel |-> model, scheme |-> sch, params |-> p,
   unitPrice |-> price, sales |-> ledger, productName |-> name,
   options |-> opts]

This ==
  InstanceOf(useBuyToEarnModel, scheme, params, unitPrice, sales,
             productName, options)

\* the orders [...sales].sort can return in _calculateStandardPayouts
OrdersOf(inst) ==
  IF inst.useBuyToEarnModel THEN { <<>> } ELSE SortOutcomes(inst.sales)

\* what calculatePayouts(o) returns on inst when the sort returns order
calculatePayoutsOf(inst, o, order) ==
  IF inst.useBuyToEarnModel
    THEN LET r == BuyToEarnResultOf(inst.params, inst.unitPrice,
                                    Len(inst.sales), yourTokenNumberOf(o))
         IN IF RoundRequested(o)
                 /\ Len(inst.sales) >= calculateNumPrepayers(inst.params,
                                                             inst.unitPrice)
              THEN RoundBuyToEarn(r) ELSE r
  ELSE LET rawPayouts == CalculateOf(inst.scheme, order,
                                     Len(inst.sales) * inst.unitPrice)
       IN IF RoundRequested(o) THEN _roundResults(rawPayouts)
          ELSE rawPayouts

\* the last two completed calls
Push(history, call) ==
  IF Len(history) < 2 THEN Append(history, call)
  ELSE <<history[2], call>>

\* schemes of the instances whose calls are recorded
CallSchemes ==
  { <<RuleMenu[1], RuleMenu[7]>>,
    <<RuleMenu[5], RuleMenu[11]>>,
    <<RuleMenu[8], RuleMenu[12]>>,
    <<RuleMenu[3]>>,
    <<RuleMenu[4], RuleMenu[9]>> }

InitCalls ==
  /\ \/ /\ useBuyToEarnModel = FALSE
        /\ scheme \in CallSchemes
        /\ params = NoParams
     \/ /\ useBuyToEarnModel = TRUE
        /\ scheme = <<>>
        /\ \E inv \in InitialInvestments, sh \in ShareTriples,
              ratio \in PaybackRatios, np \in NonPaybackPoolShares :
             params = [initialInvestment |-> inv,
                       creatorShare |-> sh[1],
                       platformShare |-> sh[2],
                       promotionShare |-> sh[3],
                       paybackRatio |-> ratio,
                       nonPaybackPoolSharePercent |-> np]
  /\ unitPrice \in UnitPrices
  /\ sales = <<>>
  /\ pc = "idle"
  /\ AllocIdle
  /\ sim = NoSim
  /\ result = NoResult
  /\ ApiIdle

\* variant: this.sales.length, the length after the push
IndexOfAdded_Length(ledger) == Len(ledger)

\* this.sales.length - 1 after the push
IndexOfAdded(ledger) == Len(ledger) - 1

\* the sales offered to the recorded addSale: a buy-to-earn ledger is read
\* for its length only
RecordedSaleInputs ==
  IF useBuyToEarnModel THEN { <<"b1", 1>>, <<NoBuyer, 1>> }
  ELSE { <<"b1", 2>>, <<"b2", 1>>, <<"b2", 0>>, <<NoBuyer, 1>> }

\* addSale({ buyer, timestamp }), its exception or return value recorded
addSaleCall(buyer, timestamp) ==
  /\ pc = "idle"
  /\ <<buyer, timestamp>> \in RecordedSaleInputs
  /\ IF buyer = NoBuyer
       THEN /\ calls' = Push(calls,
                 [op |-> "addSale", buyer |-> buyer, timestamp |-> timestamp,
                  threw |-> TRUE,
                  error |-> "Buyer identifier is required for each sale"])
            /\ UNCHANGED sales
       ELSE /\ Len(sales)
                 < (IF useBuyToEarnModel THEN MaxB2ESales ELSE MaxSales)
            /\ sales' = Append(sales,
                               [buyer |-> buyer, timestamp |-> timestamp])
            /\ calls' = Push(calls,
                 [op |-> "addSale", buyer |-> buyer, timestamp |-> timestamp,
                  threw |-> FALSE, returned |-> IndexOfAdded(sales')])
  /\ UNCHANGED <<instanceVars, pc, allocVars, b2eVars, options, productName,
                 other>>

\* variant: this.sales.sort(...), the ledger sorted in place
LedgerAfterSort_InPlace(ledger, order) == order

\* [...sales].sort(...): the ledger is copied before it is sorted
LedgerAfterSort(ledger, order) == ledger

\* the last call was calculatePayouts: the ledger is the one it sorted
LastWasCalculate ==
  calls # <<>> /\ calls[Len(calls)].op = "calculatePayouts"

\* calculatePayouts(o) from call to return.  Array.prototype.sort is a
\* function of its input: on an unchanged ledger it returns the order it
\* returned before
calculatePayouts(o) ==
  /\ pc = "idle"
  /\ \E order \in OrdersOf(This) :
       /\ LastWasCalculate => order = calls[Len(calls)].order
       /\ calls' = Push(calls,
            [op |-> "calculatePayouts", options |-> o, order |-> order,
             threw |-> FALSE,
             returned |-> calculatePayoutsOf(This, o, order)])
       /\ sales' = IF useBuyToEarnModel THEN sales
                   ELSE LedgerAfterSort(sales, order)
  /\ UNCHANGED <<instanceVars, pc, allocVars, b2eVars, options, productName,
                 other>>

NextCalls ==
  \/ \E buyer \in Buyers \cup {NoBuyer}, timestamp \in Timestamps :
       addSaleCall(buyer, timestamp)
  \/ \E o \in CallOptions : calculatePayouts(o)

SpecCalls == InitCalls /\ [][NextCalls]_vars

(***************************************************************************)
(* RevenueSharing.exportData and importData between two instances.         *)
(***************************************************************************)
\* the object exportData returns; an absent field is NoParams or <<>>
exportData(inst) ==
  [productName |-> inst.productName,
   unitPrice |-> inst.unitPrice,
   sales |-> inst.sales,
   options |-> inst.options,
   useBuyToEarnModel |-> inst.useBuyToEarnModel,
   params |-> IF inst.useBuyToEarnModel THEN inst.params ELSE NoParams,
   scheme |-> IF inst.useBuyToEarnModel THEN <<>> ELSE inst.scheme]

\* the message importData(data) throws with, "" if it throws nothing
ImportError(data) ==
  IF data.productName = "" THEN "Invalid import data format"
  ELSE IF ~data.useBuyToEarnModel /\ ~validate(data.scheme)
    THEN "Invalid imported scheme"
  ELSE ""

\* variant: this.useBuyToEarnModel is not assigned
ImportedInto_KeepModel(inst, data) ==
  [inst EXCEPT
     !.productName = data.productName,
     !.unitPrice = data.unitPrice,
     !.sales = data.sales,
     !.options = data.options,
     !.params = IF data.useBuyToEarnModel THEN data.params ELSE @,
     !.scheme = IF data.useBuyToEarnModel THEN @ ELSE data.scheme]

\* the assignments of importData
ImportedInto(inst, data) ==
  [inst EXCEPT
     !.productName = data.productName,
     !.unitPrice = data.unitPrice,
     !.sales = data.sales,
     !.options = data.options,
     !.useBuyToEarnModel = data.useBuyToEarnModel,
     !.params = IF data.useBuyToEarnModel THEN data.params ELSE @,
     !.scheme = IF data.useBuyToEarnModel THEN @ ELSE data.scheme]

\* product names of the exporting instance; "" is falsy
ProductNames == { "Product1", "" }

\* the importing instance before the import: one of each model
ImportingInstances ==
  { InstanceOf(FALSE, <<RuleMenu[3]>>, NoParams, 20,
               <<[buyer |-> "b2", timestamp |-> 1]>>, "Product2",
               OptionsOf(TRUE)),
    InstanceOf(TRUE, <<>>,
               [initialInvestment |-> 20, creatorShare |-> 10,
                platformShare |-> 10, promotionShare |-> 10,
                paybackRatio |-> 2, nonPaybackPoolSharePercent |-> 60],
               20, <<>>, "Product2", OptionsOf(TRUE)) }

InitTransfer ==
  /\ \/ /\ useBuyToEarnModel = FALSE
        /\ scheme \in CallSchemes
        /\ params = NoParams
     \/ /\ useBuyToEarnModel = TRUE
        /\ scheme = <<>>
        /\ \E sh \in ShareTriples, np \in NonPaybackPoolShares :
             params = [initialInvestment |-> 10,
                       creatorShare |-> sh[1],
                       platformShare |-> sh[2],
                       promotionShare |-> sh[3],
                       paybackRatio |-> 1,
                       nonPaybackPoolSharePercent |-> np]
  /\ unitPrice \in UnitPrices
  /\ sales = <<>>
  /\ pc = "idle"
  /\ AllocIdle
  /\ sim = NoSim
  /\ result = NoResult
  /\ options = OptionsOf(FALSE)
  /\ productName \in ProductNames
  /\ calls = <<>>
  /\ other \in ImportingInstances

\* other.importData(this.exportData()), validate = true
importData ==
  /\ pc = "idle"
  /\ LET data == exportData(This)
     IN IF ImportError(data) # ""
          THEN /\ calls' = <<[op |-> "importData", threw |-> TRUE,
                              error |-> ImportError(data)]>>
               /\ UNCHANGED other
        ELSE /\ other' = ImportedInto(other, data)
             /\ calls' = <<[op |-> "importData", threw |-> FALSE,
                            returned |-> TRUE]>>
  /\ UNCHANGED <<instanceVars, sales, pc, allocVars, b2eVars, options,
                 productName>>

NextTransfer ==
  \/ \E buyer \in Buyers, timestamp \in Timestamps : addSale(buyer, timestamp)
  \/ importData

SpecTransfer == InitTransfer /\ [][NextTransfer]_vars

(***************************************************************************)
(* PayoutCalculator 1.0.0 (src/core/PayoutCalculator.js): calculate        *)
(***************************************************************************)
\* the if-chain of the 1.0.0 _processFixedPercentages on share
RoutePercentage_v1(rule, sortedS, pay, share) ==
  IF rule.key = "author"
    THEN [pay EXCEPT !.author = QAdd(@, share)]
  ELSE IF rule.key = "platform"
    THEN [pay EXCEPT !.platform = QAdd(@, share)]
  ELSE IF rule.count # 0
    THEN _processGroupAllocation(rule, sortedS, pay, share)
  ELSE IF IsAllBuyersKey(rule.key)
    THEN _processAllBuyersAllocation(sortedS, pay, share)
  ELSE pay

\* the loop of the 1.0.0 _processFixedPercentages from rule i on
RECURSIVE _processFixedPercentages_v1(_, _, _, _, _)
_processFixedPercentages_v1(sch, i, sortedS, pay, totalRev) ==
  IF i > Len(sch) THEN pay
  ELSE _processFixedPercentages_v1(sch, i + 1, sortedS,
         (IF ~sch[i].hasPercentage THEN pay
          ELSE RoutePercentage_v1(sch[i], sortedS, pay,
                                  ShareOf(totalRev, sch[i].percentage))),
         totalRev)

\* the if-chain of the 1.0.0 _processRemainder on the whole remainder
RouteRemainder_v1(rule, sortedS, pay, remainder) ==
  IF rule.key = "author"
    THEN [pay EXCEPT !.author = QAdd(@, remainder)]
  ELSE IF rule.key = "platform"
    THEN [pay EXCEPT !.platform = QAdd(@, remainder)]
  ELSE IF IsAllBuyersKey(rule.key)
    THEN _processAllBuyersAllocation(sortedS, pay, remainder)
  ELSE IF rule.count # 0
    THEN _processGroupAllocation(rule, sortedS, pay, remainder)
  ELSE pay

\* the loop of the 1.0.0 _processRemainder from rule i on
RECURSIVE RemainderLoop_v1(_, _, _, _, _)
RemainderLoop_v1(sch, i, sortedS, pay, remainder) ==
  IF i > Len(sch) THEN pay
  ELSE RemainderLoop_v1(sch, i + 1, sortedS,
         (IF ~sch[i].remainder THEN pay
          ELSE RouteRemainder_v1(sch[i], sortedS, pay, remainder)),
         remainder)

\* the 1.0.0 _processRemainder: no default to the author, no split
_processRemainder_v1(sch, sortedS, pay, totalRev) ==
  LET remainder == RemainderOf(totalRev, _calculateAllocatedPercentage(sch))
  IN IF QLe(remainder, Zero) THEN pay
     ELSE RemainderLoop_v1(sch, 1, sortedS, pay, remainder)

\* the 1.0.0 calculate, given the order the sort returns
calculate_v1(sch, sortedS, totalRev) ==
  _processRemainder_v1(sch, sortedS,
    _processFixedPercentages_v1(sch, 1, sortedS, InitialPayouts(sortedS),
                                totalRev),
    totalRev)

(***************************************************************************)
(* The simulator on instances whose paybackRatio may be 0: paybackGoal is  *)
(* then 0 and every token is paid back from the start.                     *)
(***************************************************************************)
PoolPaybackRatios == {0, 1}

\* new RevenueSharing({ useBuyToEarnModel: true, paybackRatio, ... })
InitPool ==
  /\ useBuyToEarnModel = TRUE
  /\ scheme = <<>>
  /\ \E inv \in InitialInvestments, sh \in ShareTriples,
        ratio \in PoolPaybackRatios, np \in NonPaybackPoolShares :
       params = [initialInvestment |-> inv,
                 creatorShare |-> sh[1],
                 platformShare |-> sh[2],
                 promotionShare |-> sh[3],
                 paybackRatio |-> ratio,
                 nonPaybackPoolSharePercent |-> np]
  /\ unitPrice \in UnitPrices
  /\ sales = <<>>
  /\ pc = "idle"
  /\ AllocIdle
  /\ ApiIdle
  /\ sim = NoSim
  /\ result = NoResult

NextPool ==
  \/ \E buyer \in Buyers, timestamp \in Timestamps : addSale(buyer, timestamp)
  \/ \E tok \in 1..(MaxB2ESales + 1) : calculateBuyToEarnPayouts(tok)
  \/ simulateSale
  \/ simulationReturn
  \/ release

SpecPool == InitPool /\ [][NextPool]_vars

(***************************************************************************)
(* The simulator alone, on buy-to-earn instances of the specified domain.  *)
(***************************************************************************)
\* the tokens tracked: the first one and a later one
TrackedTokens == {1, 3}

NextSimulate ==
  \/ \E buyer \in Buyers, timestamp \in Timestamps : addSale(buyer, timestamp)
  \/ \E tok \in TrackedTokens : calculateBuyToEarnPayouts(tok)
  \/ simulateSale
  \/ simulationReturn
  \/ release

SpecSimulate == InitBuyToEarn /\ [][NextSimulate]_vars

(***************************************************************************)
(* RevenueSharing.addSales                                                 *)
(***************************************************************************)
\* the elements of the arrays addSales is called with
BulkSales ==
  { [buyer |-> "b1", timestamp |-> 1],
    [buyer |-> "b2", timestamp |-> 2],
    [buyer |-> NoBuyer, timestamp |-> 1] }

\* the arguments of addSales: arrays of 0..MaxBatch elements, and a value
\* that is no array
SalesArguments ==
  { [isArray |-> TRUE, elements |-> e] :
      e \in UNION { [1..n -> BulkSales] : n \in 0..MaxBatch } }
  \cup { [isArray |-> FALSE, elements |-> <<>>] }

\* variant: the elements are validated before the first one is added
addSalesLoop_Atomic(ledger, salesArray, i) ==
  IF \E k \in DOMAIN salesArray : salesArray[k].buyer = NoBuyer
    THEN [sales |-> ledger, threw |-> TRUE]
  ELSE [sales |-> ledger \o salesArray, threw |-> FALSE]

\* salesArray.forEach(sale => this.addSale(sale)) from element i on: the
\* ledger when the loop ends or addSale throws
RECURSIVE addSalesLoop(_, _, _)
addSalesLoop(ledger, salesArray, i) ==
  IF i > Len(salesArray) THEN [sales |-> ledger, threw |-> FALSE]
  ELSE IF salesArray[i].buyer = NoBuyer
    THEN [sales |-> ledger, threw |-> TRUE]
  ELSE addSalesLoop(Append(ledger, salesArray[i]), salesArray, i + 1)

\* addSales(salesArray), its exception or return value recorded
addSales(salesArray) ==
  /\ pc = "idle"
  /\ Len(sales) + Len(salesArray.elements)
       <= (IF useBuyToEarnModel THEN MaxB2ESales ELSE MaxSales)
  /\ IF ~salesArray.isArray
       THEN /\ calls' = <<[op |-> "addSales", salesArray |-> salesArray,
                           initialCount |-> Len(sales), threw |-> TRUE,
                           error |-> "Expected an array of sales"]>>
            /\ UNCHANGED sales
     ELSE LET initialCount == Len(sales)
              loop == addSalesLoop(sales, salesArray.elements, 1)
          IN /\ sales' = loop.sales
             /\ calls' =
                  IF loop.threw
                    THEN <<[op |-> "addSales", salesArray |-> salesArray,
                            initialCount |-> initialCount, threw |-> TRUE,
                            error |->
                              "Buyer identifier is required for each sale"]>>
                  ELSE <<[op |-> "addSales", salesArray |-> salesArray,
                          initialCount |-> initialCount, threw |-> FALSE,
                          returned |-> Len(loop.sales) - initialCount]>>
  /\ UNCHANGED <<instanceVars, pc, allocVars, b2eVars, options, productName,
                 other>>

NextBulk == \E salesArray \in SalesArguments : addSales(salesArray)

SpecBulk == InitCalls /\ [][NextBulk]_vars

(***************************************************************************)
(* Properties                                                              *)
(***************************************************************************)
StandardDone == pc = "done" /\ ~useBuyToEarnModel

BuyToEarnDone == pc = "done" /\ useBuyToEarnModel

\* the rule has a destination in the allocator: a fixed stakeholder, a
\* first/last-N group or all buyers
HasDestination(rule) ==
  \/ rule.key \in {"author", "platform", "promotion"}
  \/ rule.count # 0
  \/ IsAllBuyersKey(rule.key)

\* percentage points of totalRevenue that reach no payout
UnroutedPercentage(sch) ==
  LET allocated == SeqSum([i \in DOMAIN sch |->
                      IF sch[i].hasPercentage THEN sch[i].percentage ELSE 0])
      dropped == SeqSum([i \in DOMAIN sch |->
                      IF sch[i].hasPercentage /\ ~HasDestination(sch[i])
                        THEN sch[i].percentage ELSE 0])
      flagged == { i \in DOMAIN sch : sch[i].remainder }
      gap == 100 - allocated
  IN dropped
     + (IF gap <= 0 THEN 0
        ELSE IF flagged = {}
          THEN (IF HasKey(sch, "author") THEN 0 ELSE gap)
        ELSE IF \E i \in flagged : ~HasDestination(sch[i]) THEN gap
        ELSE 0)

C1_Domain ==
  /\ StandardDone
  /\ Len(sales) >= 1
  /\ validate(scheme)
  /\ _calculateAllocatedPercentage(scheme) <= 100

C2_ShortCircuit ==
  \A n \in 0..(MaxB2ESales + 1) :
    ( /\ BuyToEarnDone
      /\ n * unitPrice >= params.initialInvestment
      /\ (n - 1) * unitPrice < params.initialInvestment
      /\ Len(sales) < n )
    => /\ result.creator = Q(params.initialInvestment)
       /\ result.platform = Zero
       /\ result.promotion = Zero
       /\ result.buyer = Zero
       /\ result.paidBackCount = 0
       /\ result.paybackPoint = Null
       /\ result.totalRevenueAtPayback = Zero
       /\ result.creatorRevenueAtPayback = Zero
       /\ result.platformRevenueAtPayback = Zero
       /\ result.prepayersCount = n
       /\ result.paybackGoal = Q(unitPrice * params.paybackRatio)

\* one sale in the ledger, two prepayers needed, the call has returned
C2_Witness ==
  /\ BuyToEarnDone
  /\ Len(sales) = 1
  /\ params.initialInvestment > unitPrice
  /\ result.prepayersCount = 2
  /\ result.creator = Q(params.initialInvestment)

\* C3: in every round of the simulation each token's cumulative earnings
\* never decrease, so a token at or above paybackGoal stays at or above it.
C3_MonotonicPayback ==
  [][ (pc = "simulate" /\ pc' = "simulate") =>
        \A i \in DOMAIN sim.tokenEarnings :
          /\ QLe(sim.tokenEarnings[i], sim'.tokenEarnings[i])
          /\ QLe(paybackGoalOf(params, unitPrice), sim.tokenEarnings[i])
               => QLe(paybackGoalOf(params, unitPrice), sim'.tokenEarnings[i])
    ]_vars

\* a token is at its goal and another round is still to come
C3_Witness ==
  /\ pc = "simulate"
  /\ sim.currentSale <= Len(sales)
  /\ \E i \in DOMAIN sim.tokenEarnings :
       QLe(paybackGoalOf(params, unitPrice), sim.tokenEarnings[i])

C4_Domain ==
  /\ ~useBuyToEarnModel
  /\ _calculateAllocatedPercentage(scheme) < 100
  /\ \A i \in DOMAIN scheme : scheme[i].remainder # TRUE
  /\ HasKey(scheme, "author")

\* C4: for a scheme whose percentages sum to less than 100, with no rule
\* with remainder: true and with the key author, calculate adds the whole
\* unallocated amount totalRevenue x (1 - sum/100) to the author payout and
\* to no one else.
C4_RemainderDefaulting ==
  [][ (C4_Domain /\ pc = "fixed" /\ idx > Len(scheme)) =>
        /\ pc' = "done"
        /\ payouts' =
             [payouts EXCEPT !.author =
                QAdd(@, QDiv(Q(totalRevenue
                     * (100 - _calculateAllocatedPercentage(scheme))), Q(100)))]
    ]_vars

\* the author has received more than the 50% of its own rule
C4_Witness ==
  /\ C4_Domain
  /\ pc = "done"
  /\ Len(sales) >= 1
  /\ QLt(ShareOf(totalRevenue, 50), payouts.author)

\* a step of the loop of _processRemainder
RemainderRuleStep ==
  pc = "remainder" /\ idx <= Len(remainderRules) /\ idx' = idx + 1

\* a step of the loop of _processFixedPercentages on a percentage rule
PercentageRuleStep ==
  /\ pc = "fixed" /\ idx <= Len(scheme) /\ idx' = idx + 1
  /\ scheme[idx].hasPercentage

\* R / k: the unallocated amount over the number of remainder: true rules
EvenShare ==
  QDiv(Q(totalRevenue * (100 - _calculateAllocatedPercentage(scheme))),
       Q(100 * Cardinality({ i \in DOMAIN scheme : scheme[i].remainder })))

\* C5: when k >= 1 rules carry remainder: true and the unallocated amount R
\* is positive, each remainder rule is given exactly R / k, in addition to
\* any fixed percentage it carries; the k shares together sum to R.
C5_EvenRemainderSplit ==
  [][ RemainderRuleStep =>
        PayoutTotal(payouts') = QAdd(PayoutTotal(payouts), EvenShare) ]_vars

\* C6: the destination chosen for a remainder share is the one the
\* percentage pass chooses for the same key and rule shape; a rule with count
\* is a group allocation in both passes, also under allBuyers or buyers*.
C6_RemainderRoutingEqualsPercentageRouting ==
  [][ RemainderRuleStep =>
        payouts' = RoutePercentage(remainderRules[idx], sortedSales, payouts,
                                   sharePerRule) ]_vars

\* the positions of the first / last min(N, sales.length) sales
Window(rule, n) ==
  IF rule.fromEnd THEN (n - Min(rule.count, n) + 1)..n
  ELSE 1..Min(rule.count, n)

\* every sale of the window is credited share / min(N, sales.length), and a
\* buyer without a sale in the window nothing
WindowCredited(rule, share) ==
  LET n == Len(sortedSales)
  IN \A b \in DOMAIN payouts.buyers :
       payouts'.buyers[b] =
         QAdd(payouts.buyers[b],
              QDiv(QMul(Q(Cardinality({ i \in Window(rule, n) :
                                          sortedSales[i].buyer = b })), share),
                   Q(Min(rule.count, n))))

IsGroupRule(rule) ==
  rule.count # 0 /\ rule.key \notin {"author", "platform", "promotion"}

\* C7: for a rule with count N the window is the first (last, when fromEnd)
\* min(N, sales.length) sales in sorted order; every sale in the window is
\* credited exactly share / min(N, sales.length) from the rule and a buyer
\* none of whose sales lies in the window receives 0 from it.
C7_GroupSubset ==
  [][ /\ (PercentageRuleStep /\ IsGroupRule(scheme[idx]))
         => WindowCredited(scheme[idx],
                           ShareOf(totalRevenue, scheme[idx].percentage))
      /\ (RemainderRuleStep /\ IsGroupRule(remainderRules[idx]))
         => WindowCredited(remainderRules[idx], EvenShare)
    ]_vars

\* C8: a percentage rule under a key that is neither author / platform nor a
\* buyer-group key produces a payout field of that name equal to
\* totalRevenue x percentage / 100.
C8_ExtraStakeholder ==
  StandardDone =>
    \A i \in DOMAIN scheme :
      ( /\ scheme[i].hasPercentage
        /\ ~scheme[i].remainder
        /\ scheme[i].key \notin {"author", "platform"}
        /\ scheme[i].count = 0
        /\ ~IsAllBuyersKey(scheme[i].key) )
      => /\ scheme[i].key \in DOMAIN payouts.extras
         /\ payouts.extras[scheme[i].key] =
              ShareOf(totalRevenue, scheme[i].percentage)

\* the tracked token has been sold and its earnings are at the goal
TrackedAtGoal ==
  /\ sim.specificTokenNumber \in DOMAIN sim.tokenEarnings
  /\ QLe(paybackGoalOf(params, unitPrice),
         sim.tokenEarnings[sim.specificTokenNumber])

\* after every round: a snapshot exists exactly when the tracked token is at
\* its goal; on return: paybackPoint is null exactly when the tracked
\* token's final earnings are below the goal
C9_SnapshotState ==
  /\ pc = "simulate" => (sim.paybackPoint # Null <=> TrackedAtGoal)
  /\ BuyToEarnDone =>
       (result.paybackPoint = Null <=> QLt(result.buyer, result.paybackGoal))

\* a round leaves an existing snapshot alone, and a round that takes the
\* snapshot records its own sale position and the running totals after it
C9_SnapshotStep ==
  (pc = "simulate" /\ pc' = "simulate") =>
    /\ sim.paybackPoint # Null =>
         /\ sim'.paybackPoint = sim.paybackPoint
         /\ sim'.totalRevenueAtPayback = sim.totalRevenueAtPayback
         /\ sim'.creatorRevenueAtPayback = sim.creatorRevenueAtPayback
         /\ sim'.platformRevenueAtPayback = sim.platformRevenueAtPayback
    /\ (sim.paybackPoint = Null /\ sim'.paybackPoint # Null) =>
         /\ sim'.paybackPoint = <<sim.currentSale>>
         /\ sim'.totalRevenueAtPayback = sim'.totalRevenue
         /\ sim'.creatorRevenueAtPayback = sim'.creatorRevenue
         /\ sim'.platformRevenueAtPayback = sim'.platformRevenue
         /\ sim'.totalRevenue =
              Q(params.initialInvestment
                + (sim.currentSale - Ceil(params.initialInvestment, unitPrice))
                  * unitPrice)
         /\ sim'.creatorRevenue =
              QAdd(Q(params.initialInvestment),
                   QDiv(Q((sim.currentSale
                           - Ceil(params.initialInvestment, unitPrice))
                          * unitPrice * params.creatorShare), Q(100)))
         /\ sim'.platformRevenue =
              QDiv(Q((sim.currentSale
                      - Ceil(params.initialInvestment, unitPrice))
                     * unitPrice * params.platformShare), Q(100))

\* C9: paybackPoint is assigned at most once; when assigned it is the
\* smallest sale position after whose round the tracked token's earnings are
\* >= paybackGoal, with the three *AtPayback fields equal to the running
\* totals after that sale; it stays null exactly when the tracked token's
\* final earnings are below paybackGoal.
C9_PaybackSnapshot == []C9_SnapshotState /\ [][C9_SnapshotStep]_vars

\* the snapshot was taken in an earlier round than the last one
C9_Witness ==
  /\ BuyToEarnDone
  /\ result.paybackPoint # Null
  /\ result.paybackPoint # <<Len(sales)>>
  /\ QLt(result.totalRevenueAtPayback,
         Q(params.initialInvestment
           + (Len(sales) - result.prepayersCount) * unitPrice))

\* C10: with a positive buyers share, in every distribution round every
\* token in the distribution, also one already at or above paybackGoal,
\* receives a strictly positive amount (nonPaybackPoolSharePercent = 100
\* included).
C10_TokensKeepEarning ==
  [][ ( /\ pc = "simulate" /\ pc' = "simulate"
        /\ buyersShareOf(params) > 0 )
      => \A i \in 1..(sim.currentSale - 1) :
           QLt(sim.tokenEarnings[i], sim'.tokenEarnings[i]) ]_vars

\* C11: at the end of every round and for any two token positions i < j,
\* if token j has earnings >= paybackGoal then token i has earnings >=
\* paybackGoal (shares within 0..100 summing to at most 100, paybackGoal > 0).
C11_EarlierPaysBackFirst ==
  pc = "simulate" =>
    \A i, j \in DOMAIN sim.tokenEarnings :
      (i < j /\ QLe(paybackGoalOf(params, unitPrice), sim.tokenEarnings[j]))
        => QLe(paybackGoalOf(params, unitPrice), sim.tokenEarnings[i])

\* a round after which a token other than the first is at its goal while a
\* later token is still below it
C11_Witness ==
  /\ pc = "simulate"
  /\ \E i, j \in DOMAIN sim.tokenEarnings :
       /\ 1 < i
       /\ i < j
       /\ j < sim.currentSale - 1
       /\ QLe(paybackGoalOf(params, unitPrice), sim.tokenEarnings[i])
       /\ QLt(sim.tokenEarnings[j], paybackGoalOf(params, unitPrice))

\* the timestamps of the ledger are pairwise distinct
DistinctTimestamps ==
  \A i, j \in DOMAIN sales : i # j => sales[i].timestamp # sales[j].timestamp

\* C12: for every ledger whose sales carry distinct non-negative timestamps
\* (0 included), the positions used for the first-N / last-N windows are in
\* ascending timestamp order, whatever the insertion order.
C12_TimestampOrder ==
  (~useBuyToEarnModel /\ pc # "idle" /\ DistinctTimestamps) =>
    \A i, j \in DOMAIN sortedSales :
      i < j => sortedSales[i].timestamp < sortedSales[j].timestamp

\* the call just completed is validate on the scheme of the instance
Validated == Len(calls) = 2 /\ calls[2].op = "validateScheme"

\* C13: validate reports a rule that is not a non-null object (a string,
\* null, an array) as a value: it returns isValid = false with the error
\* "Rule for '<key>' must be a non-null object" in errors, for every scheme
\* that holds such a rule next to valid rules.
C13_NonObjectRuleReported ==
  Validated =>
    \A i \in DOMAIN scheme :
      ~IsObjectRule(scheme[i]) =>
        /\ ~calls[2].result.threw
        /\ ~calls[2].result.isValid
        /\ <<NonObjectMessage, scheme[i].key>> \in calls[2].result.errors

\* C14: creating an instance in the standard model with
\* options.validateScheme = true and a scheme whose percentages, each within
\* 0..100, sum to more than 100 throws and creates no instance.
C14_OverAllocationRejected ==
  ( /\ pc = "idle"
    /\ options.validateScheme
    /\ \A i \in DOMAIN scheme :
         /\ IsObjectRule(scheme[i])
         /\ scheme[i].hasPercentage => scheme[i].percentage \in 0..100 )
  => _calculateAllocatedPercentage(scheme) <= 100

\* the amount has at most two fractional digits
IsCents(value) == 100 % value[2] = 0

\* C15: when rounding is applied to a standard-model result, author,
\* platform, every extra stakeholder field such as promotion and every
\* per-buyer value are each rounded to two fractional digits.
C15_RoundsEveryLeaf ==
  (calls # <<>> /\ calls[1].op = "_roundResults") =>
    LET rounded == calls[1].result
    IN /\ rounded.author = roundToCents(payouts.author)
       /\ rounded.platform = roundToCents(payouts.platform)
       /\ DOMAIN rounded.extras = DOMAIN payouts.extras
       /\ \A k \in DOMAIN rounded.extras :
            /\ rounded.extras[k] = roundToCents(payouts.extras[k])
            /\ IsCents(rounded.extras[k])
       /\ DOMAIN rounded.buyers = DOMAIN payouts.buyers
       /\ \A b \in DOMAIN rounded.buyers :
            /\ rounded.buyers[b] = roundToCents(payouts.buyers[b])
            /\ IsCents(rounded.buyers[b])

\* every amount of a returned result has at most two fractional digits
RoundedToCents(r) ==
  IF useBuyToEarnModel
    THEN /\ IsCents(r.creator)
         /\ IsCents(r.platform)
         /\ IsCents(r.promotion)
         /\ IsCents(r.buyer)
         /\ IsCents(r.totalRevenueAtPayback)
         /\ IsCents(r.creatorRevenueAtPayback)
         /\ IsCents(r.platformRevenueAtPayback)
  ELSE /\ IsCents(r.author)
       /\ IsCents(r.platform)
       /\ \A k \in DOMAIN r.extras : IsCents(r.extras[k])
       /\ \A b \in DOMAIN r.buyers : IsCents(r.buyers[b])

\* the caller has set roundResults to false
RoundingDeclined(o) == o.given /\ o.hasRoundResults /\ ~o.roundResults

\* C16: calculatePayouts returns results rounded to cents for every call in
\* which the caller has not set roundResults to false, a call whose options
\* object holds only specificTokenNumber included.
C16_RoundingIsDefault ==
  \A k \in DOMAIN calls :
    (calls[k].op = "calculatePayouts" /\ ~RoundingDeclined(calls[k].options))
      => RoundedToCents(calls[k].returned)

Returns(op) ==
  /\ calls' # calls
  /\ calls'[Len(calls')].op = op

\* C18: calculatePayouts has no effect on the instance: after any call, in
\* either model and with or without rounding, the ledger has the same
\* length, elements and order as before, and the scheme and the buy-to-earn
\* parameters are unchanged.
C18_CalculateLeavesInstance ==
  [][ Returns("calculatePayouts") =>
        /\ sales' = sales
        /\ scheme' = scheme
        /\ params' = params
        /\ unitPrice' = unitPrice
        /\ useBuyToEarnModel' = useBuyToEarnModel ]_vars

\* a rounded call has sorted a ledger that was not in timestamp order
C18_Witness ==
  /\ ~useBuyToEarnModel
  /\ LastWasCalculate
  /\ RoundRequested(calls[Len(calls)].options)
  /\ calls[Len(calls)].order # sales
  /\ Len(sales) = 2

\* C19: addSale rejects a sale without a buyer identifier by throwing
\* 'Buyer identifier is required for each sale' and leaves the ledger
\* unchanged; a successful addSale appends exactly one sale at the end,
\* leaves the earlier sales unchanged and returns the previous ledger length.
C19_AddSale ==
  [][ Returns("addSale") =>
        LET call == calls'[Len(calls')]
        IN IF call.buyer = NoBuyer
             THEN /\ call.threw
                  /\ call.error = "Buyer identifier is required for each sale"
                  /\ sales' = sales
           ELSE /\ ~call.threw
                /\ call.returned = Len(sales)
                /\ Len(sales') = Len(sales) + 1
                /\ SubSeq(sales', 1, Len(sales)) = sales
                /\ sales'[Len(sales')] =
                     [buyer |-> call.buyer, timestamp |-> call.timestamp] ]_vars

\* a rejected addSale followed by the addSale of a second sale
C19_Witness ==
  /\ Len(calls) = 2
  /\ calls[1].op = "addSale"
  /\ calls[1].threw
  /\ calls[2].op = "addSale"
  /\ ~calls[2].threw
  /\ calls[2].returned = 1
  /\ Len(sales) = 2

\* the step is an importData call that returned or threw
ImportAttempt == sales' = sales /\ (other' # other \/ calls' # calls)

\* inst answers calculatePayouts as this instance does, and has its
\* productName, unitPrice and number of sales
AnswersAsThis(inst) ==
  /\ \A o \in CallOptions :
       \A order \in OrdersOf(This) :
         calculatePayoutsOf(inst, o, order) = calculatePayoutsOf(This, o, order)
  /\ inst.productName = productName
  /\ inst.unitPrice = unitPrice
  /\ Len(inst.sales) = Len(sales)

Importable == productName # "" /\ (useBuyToEarnModel \/ validate(scheme))

Reaches(rule, b) ==
  /\ rule.key \notin {"author", "platform", "promotion"}
  /\ IF rule.count # 0
       THEN \E i \in Window(rule, Len(sortedSales)) : sortedSales[i].buyer = b
     ELSE IsAllBuyersKey(rule.key)

\* C21: for an empty ledger and any scheme calculate returns author = 0,
\* platform = 0 and an empty per-buyer mapping; for a non-empty ledger every
\* buyer of the ledger is in the mapping, with value 0 when no rule reaches
\* the buyer.
C21_DegenerateInputs ==
  StandardDone =>
    IF sales = <<>>
      THEN /\ payouts.author = Zero
           /\ payouts.platform = Zero
           /\ DOMAIN payouts.buyers = {}
    ELSE /\ BuyersOf(sales) \subseteq DOMAIN payouts.buyers
         /\ \A b \in BuyersOf(sales) :
              (\A i \in DOMAIN scheme : ~Reaches(scheme[i], b))
                => payouts.buyers[b] = Zero

\* n x unitPrice x share / 100
AfterSales(n, price, share) == QDiv(Q(n * price * share), Q(100))

\* C22: for sales.length >= numPrepayers and n = sales.length - numPrepayers
\* the simulator returns creator = initialInvestment + n x unitPrice x
\* creatorShare / 100, platform = n x unitPrice x platformShare / 100 and
\* promotion = n x unitPrice x promotionShare / 100, whatever paybackRatio,
\* nonPaybackPoolSharePercent and the tracked token are.
C22_StakeholderTotals ==
  (BuyToEarnDone /\ Len(sales) >= numPrepayersOf(params, unitPrice)) =>
    LET n == Len(sales) - numPrepayersOf(params, unitPrice)
    IN /\ result.creator =
            QAdd(Q(params.initialInvestment),
                 AfterSales(n, unitPrice, params.creatorShare))
       /\ result.platform = AfterSales(n, unitPrice, params.platformShare)
       /\ result.promotion = AfterSales(n, unitPrice, params.promotionShare)

\* a simulation of three rounds in which tokens have paid back
C22_Witness ==
  /\ BuyToEarnDone
  /\ Len(sales) - numPrepayersOf(params, unitPrice) >= 3
  /\ params.creatorShare > 0
  /\ result.paidBackCount > 0
  /\ result.paidBackCount < Len(sales)

\* a simulator that keeps notPaidBackCount as a running counter: sim are the
\* locals of the loop, tokens the number of tokens that have joined the
\* distribution, notPaidBackCount the counter
IncrementalStart(p, price, totalSales, specificTokenNumber) ==
  [sim |-> InitialSim(p, price, totalSales, specificTokenNumber),
   tokens |-> 0,
   notPaidBackCount |-> 0]

\* the counter in the round about to run: the tokens that join are counted
RunningCount(t) == t.notPaidBackCount + ((t.sim.currentSale - 1) - t.tokens)

\* what token i earns in a round when the non-payback pool is divided by
\* the running counter
IncrementalEarning(p, price, earnings, n, i, count) ==
  LET nonPaybackPoolAmount ==
        QMul(AmountOf(price, buyersShareOf(p)),
             QDiv(Q(p.nonPaybackPoolSharePercent), Q(100)))
  IN IF QLe(paybackGoalOf(p, price), earnings[i]) \/ count <= 0
       THEN sharedSharePerTokenOf(p, price, n)
     ELSE QAdd(sharedSharePerTokenOf(p, price, n),
               QDiv(nonPaybackPoolAmount, Q(count)))

\* one round of the simulator with the running counter
IncrementalSale(p, price, t) ==
  LET s == t.sim
      goal == paybackGoalOf(p, price)
      n == s.currentSale - 1
      count == RunningCount(t)
      total == QAdd(s.totalRevenue, Q(price))
      creator == QAdd(s.creatorRevenue, AmountOf(price, p.creatorShare))
      platform == QAdd(s.platformRevenue, AmountOf(price, p.platformShare))
      promotion == QAdd(s.promotionRevenue, AmountOf(price, p.promotionShare))
      earnings == [i \in DOMAIN s.tokenEarnings |->
                     IF i <= n
                       THEN QAdd(s.tokenEarnings[i],
                                 IncrementalEarning(p, price, s.tokenEarnings,
                                                    n, i, count))
                     ELSE s.tokenEarnings[i]]
      crossed == Cardinality({ i \in 1..n :
                                 /\ QLt(s.tokenEarnings[i], goal)
                                 /\ QLe(goal, earnings[i]) })
      records == RecordsPayback(s, n, goal, earnings)
  IN [sim |->
        [s EXCEPT
           !.currentSale = @ + 1,
           !.totalRevenue = total,
           !.creatorRevenue = creator,
           !.platformRevenue = platform,
           !.promotionRevenue = promotion,
           !.tokenEarnings = earnings,
           !.paidBackCount =
              IF n > 0 THEN Cardinality({ i \in 1..n : QLe(goal, earnings[i]) })
              ELSE @,
           !.paybackPoint = IF records THEN <<s.currentSale>> ELSE @,
           !.totalRevenueAtPayback = IF records THEN total ELSE @,
           !.creatorRevenueAtPayback = IF records THEN creator ELSE @,
           !.platformRevenueAtPayback = IF records THEN platform ELSE @],
      tokens |-> n,
      notPaidBackCount |-> count - crossed]

\* the simulator with the running counter, run up to round k
RECURSIVE IncrementalRun(_, _, _, _)
IncrementalRun(p, price, t, k) ==
  IF t.sim.currentSale >= k THEN t
  ELSE IncrementalRun(p, price, IncrementalSale(p, price, t), k)

IncrementalAt(k) ==
  IncrementalRun(params, unitPrice,
                 IncrementalStart(params, unitPrice, Len(sales),
                                  sim.specificTokenNumber), k)

\* C23: a simulator that keeps notPaidBackCount as a running counter
\* (increased by the tokens that join the distribution in a round, decreased
\* by one each time a token's earnings cross paybackGoal) has in every round
\* the notPaidBackCount of the full recount, and returns the same result.
C23_IncrementalCount ==
  /\ pc = "simulate" =>
       LET t == IncrementalAt(sim.currentSale)
       IN /\ t.sim = sim
          /\ sim.currentSale <= Len(sales) =>
               RunningCount(t) =
                 notPaidBackCountOf(sim.tokenEarnings, sim.currentSale - 1,
                                    paybackGoalOf(params, unitPrice))
  /\ (BuyToEarnDone /\ Len(sales) >= numPrepayersOf(params, unitPrice)) =>
       result = SimulationResult(params, unitPrice,
                                 IncrementalAt(Len(sales) + 1).sim, Len(sales))

\* a round is about to run in which some tokens have crossed the goal and
\* others, among them one that joins, have not
C23_Witness ==
  /\ pc = "simulate"
  /\ sim.currentSale <= Len(sales)
  /\ sim.paidBackCount > 0
  /\ params.nonPaybackPoolSharePercent = 60
  /\ RunningCount(IncrementalAt(sim.currentSale)) > 1
  /\ IncrementalAt(sim.currentSale).notPaidBackCount
       < IncrementalAt(sim.currentSale).tokens

\* the positions of the ledger whose earnings are at or above the goal
PaidBackTokens(earnings) ==
  { i \in 1..Len(sales) : QLe(paybackGoalOf(params, unitPrice), earnings[i]) }

\* C24: after every round that distributes, paidBackCount is the number of
\* positions i in 1..sales.length whose earnings are >= paybackGoal; it never
\* decreases from one round to the next; and the returned paidBackCount is
\* that number for the final earnings.
C24_PaidBackCount ==
  /\ [](pc = "simulate" =>
          sim.paidBackCount = Cardinality(PaidBackTokens(sim.tokenEarnings)))
  /\ []((BuyToEarnDone /\ Len(sales) >= numPrepayersOf(params, unitPrice)) =>
          result.paidBackCount = Cardinality(PaidBackTokens(sim.tokenEarnings)))
  /\ [][ (pc = "simulate" /\ pc' = "simulate") =>
           sim'.paidBackCount >= sim.paidBackCount ]_vars

\* the simulation has returned after rounds in which paidBackCount grew to 2
\* of the tokens
C24_Witness ==
  /\ BuyToEarnDone
  /\ Len(sales) - numPrepayersOf(params, unitPrice) >= 2
  /\ result.paidBackCount >= 2
  /\ result.paidBackCount < Len(sales) - 1

\* the rule hands its share to buyers: a first/last-N group or all buyers
IsBuyersRule(rule) ==
  /\ rule.key \notin {"author", "platform", "promotion"}
  /\ (rule.count # 0 \/ IsAllBuyersKey(rule.key))

\* the sales the rule reaches: its window, or the whole ledger
ReachedSales(rule) ==
  IF rule.count # 0 THEN Window(rule, Len(sortedSales))
  ELSE 1..Len(sortedSales)

\* every buyer is credited once per reached sale of theirs, and an
\* all-buyers rule hands out its whole share
CreditedPerSale(rule, share) ==
  LET reached == ReachedSales(rule)
  IN /\ \A b \in DOMAIN payouts.buyers :
          payouts'.buyers[b] =
            QAdd(payouts.buyers[b],
                 QMul(Q(Cardinality({ i \in reached : sortedSales[i].buyer = b })),
                      QDiv(share, Q(Cardinality(reached)))))
     /\ (rule.count = 0 /\ sortedSales # <<>>) =>
          QSum(payouts'.buyers, DOMAIN payouts'.buyers) =
            QAdd(QSum(payouts.buyers, DOMAIN payouts.buyers), share)

\* C25: the per-buyer mapping has exactly one entry per distinct buyer of the
\* ledger, and a buyer who occurs in m sales reached by a rule (all buyers or
\* a group window) is credited m times the per-sale share of the rule, so
\* that an all-buyers rule hands out its full share even with repeat buyers.
C25_DuplicatesSummed ==
  /\ [](( ~useBuyToEarnModel /\ pc \in {"fixed", "remainder", "done"}) =>
          DOMAIN payouts.buyers = BuyersOf(sales))
  /\ [][ /\ (PercentageRuleStep /\ IsBuyersRule(scheme[idx]))
            => CreditedPerSale(scheme[idx],
                               ShareOf(totalRevenue, scheme[idx].percentage))
         /\ (RemainderRuleStep /\ IsBuyersRule(remainderRules[idx]))
            => CreditedPerSale(remainderRules[idx], EvenShare)
       ]_vars

\* C26: for every scheme accepted by SchemeValidator and every ledger the
\* 2.0.0 calculate returns the same author, platform and per-buyer payouts
\* as the 1.0.0 calculate.
C26_SameAsVersion1 ==
  (StandardDone /\ validate(scheme)) =>
    LET v1 == calculate_v1(scheme, sortedSales, totalRevenue)
    IN /\ payouts.author = v1.author
       /\ payouts.platform = v1.platform
       /\ payouts.buyers = v1.buyers

\* the ledger with other buyers, no timestamps, and in reverse order
Relabelled(ledger) ==
  [i \in DOMAIN ledger |->
     [buyer |-> IF ledger[Len(ledger) + 1 - i].buyer = "b1" THEN "b2" ELSE "b1",
      timestamp |-> 0]]

\* ledgers of n sales: one buyer with equal timestamps, alternating buyers
\* with timestamps out of order
LedgersOfLength(n) ==
  { [i \in 1..n |-> [buyer |-> "b1", timestamp |-> 2]],
    [i \in 1..n |-> [buyer |-> IF i % 2 = 0 THEN "b1" ELSE "b2",
                     timestamp |-> IF i % 2 = 0 THEN 1 ELSE 2]] }

\* the tracked token of the call that returned
TrackedToken ==
  IF "specificTokenNumber" \in DOMAIN sim THEN sim.specificTokenNumber ELSE 1

\* C27: for the same parameters and tracked token, two ledgers with the same
\* number of sales give field-by-field identical buy-to-earn results,
\* whatever the buyers, the timestamps and the insertion order.
C27_LengthOnly ==
  BuyToEarnDone =>
    \A ledger \in LedgersOfLength(Len(sales)) \cup {Relabelled(sales)} :
      result = calculateBuyToEarnPayoutsOf(params, unitPrice, ledger,
                                           TrackedToken)

\* a simulation has returned on a ledger of two buyers, some sales without
\* timestamp, that differs from the ledgers it is compared with
C27_Witness ==
  /\ BuyToEarnDone
  /\ Len(sales) - numPrepayersOf(params, unitPrice) >= 2
  /\ result.buyer # Zero
  /\ Cardinality(BuyersOf(sales)) = 2
  /\ \E i \in DOMAIN sales : sales[i].timestamp = 0
  /\ sales \notin LedgersOfLength(Len(sales))
  /\ Relabelled(sales) # sales

\* a round of the simulation loop that distributes over n tokens
DistributionRound(n) ==
  /\ pc = "simulate"
  /\ sim'.currentSale = sim.currentSale + 1
  /\ n = sim.currentSale - 1
  /\ n > 0

\* what the round credits to the tokens in all
CreditedInRound(n) ==
  QSub(QSum(sim'.tokenEarnings, 1..n), QSum(sim.tokenEarnings, 1..n))

\* C28: in every distribution round the sum of the amounts credited to
\* tokens is at most buyersAmount = unitPrice x buyersShare / 100; it equals
\* buyersAmount when at least one token of the distribution was below
\* paybackGoal before the round, and otherwise equals the shared-pool part,
\* the non-payback pool of the round being credited to no one.
C28_PoolAccounting ==
  [][ \A n \in 1..MaxB2ESales + 1 :
        DistributionRound(n) =>
          LET buyersAmount == AmountOf(unitPrice, buyersShareOf(params))
              sharedPoolAmount ==
                QMul(buyersAmount,
                     QDiv(Q(100 - params.nonPaybackPoolSharePercent), Q(100)))
          IN /\ QLe(CreditedInRound(n), buyersAmount)
             /\ \A i \in (n + 1)..Len(sales) :
                  sim'.tokenEarnings[i] = sim.tokenEarnings[i]
             /\ IF \E i \in 1..n :
                     QLt(sim.tokenEarnings[i], paybackGoalOf(params, unitPrice))
                  THEN CreditedInRound(n) = buyersAmount
                ELSE CreditedInRound(n) = sharedPoolAmount
    ]_vars

\* rounds have distributed a pool split 60 / 40 over tokens of which some
\* have paid back and some have not
C28_Witness ==
  /\ pc = "simulate"
  /\ sim.currentSale > numPrepayersOf(params, unitPrice) + 2
  /\ params.nonPaybackPoolSharePercent = 60
  /\ params.paybackRatio = 1
  /\ buyersShareOf(params) > 0
  /\ sim.paidBackCount > 0
  /\ sim.paidBackCount < sim.currentSale - 2

\* C29: for initialInvestment > 0, unitPrice > 0, the same shares,
\* paybackRatio and nonPaybackPoolSharePercent, the same number of sales and
\* the same tracked token >= 1, RevenueSharing.calculatePayouts in
\* buy-to-earn mode with roundResults false returns a result equal field by
\* field to PayoutCalculator.calculateBuyToEarnPayouts.
C29_SimulatorsAgree ==
  (LastWasCalculate /\ useBuyToEarnModel
      /\ ~RoundRequested(calls[Len(calls)].options)) =>
    calls[Len(calls)].returned =
      calculateBuyToEarnPayoutsOf(params, unitPrice, sales,
                                  calls[Len(calls)].options.specificTokenNumber)

\* calculatePayouts({ specificTokenNumber: 2 }) has returned unrounded after
\* two rounds, on an instance whose initialInvestment / unitPrice is no
\* integer
C29_Witness ==
  /\ LastWasCalculate
  /\ useBuyToEarnModel
  /\ ~RoundRequested(calls[Len(calls)].options)
  /\ calls[Len(calls)].options.specificTokenNumber = 2
  /\ params.initialInvestment = 15
  /\ Len(sales) >= calculateNumPrepayers(params, unitPrice) + 2
  /\ calls[Len(calls)].returned.buyer # Zero
  /\ calls[Len(calls)].returned.paybackPoint # Null

\* the zero-based indices of the elements without a buyer identifier
WithoutBuyer(elements) ==
  { k \in 0..(Len(elements) - 1) : elements[k + 1].buyer = NoBuyer }

\* C30: when element k (zero-based) of the array is the first one without a
\* buyer identifier, addSales throws after having appended exactly the
\* elements 0..k-1 in order: the elements after k are not appended and the
\* appended ones are not rolled back.  When no element is invalid it appends
\* all the elements in array order and returns their count.
C30_AddSalesNotAtomic ==
  [][ (Returns("addSales") /\ calls'[1].salesArray.isArray) =>
        LET call == calls'[1]
            elements == call.salesArray.elements
        IN IF WithoutBuyer(elements) = {}
             THEN /\ ~call.threw
                  /\ sales' = sales \o elements
                  /\ call.returned = Len(elements)
           ELSE LET k == CHOOSE k \in WithoutBuyer(elements) :
                           \A j \in WithoutBuyer(elements) : k <= j
                IN /\ call.threw
                   /\ sales' = sales \o SubSeq(elements, 1, k)
    ]_vars

\* addSales has thrown on the second of three elements and the first one
\* stays appended
C30_Witness ==
  /\ calls # <<>>
  /\ calls[1].op = "addSales"
  /\ calls[1].threw
  /\ Len(calls[1].salesArray.elements) = 3
  /\ WithoutBuyer(calls[1].salesArray.elements) = {1}
  /\ Len(sales) = calls[1].initialCount + 1
  /\ calls[1].initialCount > 0
  /\ sales[Len(sales)] = calls[1].salesArray.elements[1]

====
